---- MODULE Spec2Model ----
(***************************************************************************)
(* The login handler of Vibro.X-lite (src/unnamed/part_002): the in-memory *)
(* rate limiter, credential verification, CAPTCHA, the one-time email code *)
(* and the session record.                                                 *)
(*                                                                         *)
(* A request is a process: one action per synchronous segment of the       *)
(* handler, cut where the handler awaits the store, the mail transport,    *)
(* the CAPTCHA verifier or the timer.  Time is counted in seconds: every   *)
(* duration of the code (15*60*1000, 60*1000, days*24*60*60*1000 ms) is a  *)
(* whole number of seconds.                                                *)
(***************************************************************************)
EXTENDS Integers, Sequences, FiniteSets, TLC

\* ------------------------------------------------------------------ bounds
MaxRequests == 2
MaxTicks == 1
MaxFaults == 1
MaxFlowRequests == 4
MaxFlowTicks == 1
MaxFlowFaults == 1
MaxRateRequests == 6
MaxRateTicks == 2
MaxRateFaults == 1
MaxSessionRequests == 2
MaxSessionTicks == 1
MaxSessionFaults == 2
MaxRaceRequests == 3
MaxRaceFaults == 1
MaxFingerprintRequests == 2
MaxLiveRequests == 2
MaxLiveTicks == 1
MaxLiveFaults == 2
MaxLimiterCalls == 6
MaxLimiterTicks == 1
MaxLimiterFaults == 1
MaxAttemptRequests == 3
MaxAttemptTicks == 1
MaxAttemptFaults == 1
MaxCookieRequests == 4
MaxCookieTicks == 1
MaxCookieFaults == 1
MaxRollbackRequests == 4
MaxRollbackTicks == 2
MaxRollbackFaults == 1
MaxCaptchaRequests == 3
MaxCaptchaTicks == 1
MaxCaptchaFaults == 1
MaxGuessRequests == 6
MaxGuessTicks == 1
MaxGuessFaults == 1
MaxPolicyRequests == 3
MaxPolicyTicks == 1
MaxPolicyFaults == 1
MaxShapeRequests == 3
MaxShapeTicks == 1
MaxShapeFaults == 1
MaxAdmitRequests == 6
MaxAdmitTicks == 1

\* ------------------------------------------------------------- input sets
Slots == {1, 2}
Emails == {"alice@x"}
IPs == {"10.0.0.1"}
Codes == {"100000", "999999"}
OtpTicks == {61}
RateTicks == {450}
SessionTicks == {30}

\* A password is its sequence of character classes: U upper case, l lower
\* case, d digit, s one of !@#$%^&*.
PwStrong == <<"U", "l", "l", "l", "l", "l", "d", "s">>
PwWeak == <<"U", "l", "l", "l", "l", "d", "s">>
Passwords == {PwStrong, PwWeak}

EmptyHash == <<>>
dummyHash == <<"$2b$12$", <<"C6UzMDM.H6dfI/f/IKcEeO">>>>
bcryptHash(password) == <<"$2b$12$", password>>
bcryptCompare(password, hash) == hash # EmptyHash /\ hash = bcryptHash(password)

passwordStrongEnough(password) ==
    /\ Len(password) >= 8
    /\ \E i \in 1..Len(password) : password[i] = "U"
    /\ \E i \in 1..Len(password) : password[i] = "l"
    /\ \E i \in 1..Len(password) : password[i] = "d"
    /\ \E i \in 1..Len(password) : password[i] = "s"

Truthy(s) == s # ""

\* ------------------------------------------------------------ rate limiter
windowMs == 15 * 60
maxAttempts == 5

\* A window that never forgets: every recorded attempt stays recent.
Recent_NoDecay(attempts, t) == attempts

\* A filter with half the window: it drops attempts that are 7.5 to 15
\* minutes old.
Recent_HalfWindow(attempts, t) ==
    SelectSeq(attempts, LAMBDA time : 2 * (t - time) < windowMs)

Recent(attempts, t) == SelectSeq(attempts, LAMBDA time : t - time < windowMs)

\* A limiter that trips one attempt late (> in place of >=).
checkRateLimit_OffByOne(attempts, t) ==
    LET recentAttempts == Recent(attempts, t) IN
    IF Len(recentAttempts) > maxAttempts
      THEN [allowed |-> FALSE, cache |-> attempts]
      ELSE [allowed |-> TRUE, cache |-> Append(recentAttempts, t)]

\* A limiter that only reads: it admits without taking a slot.
checkRateLimit_ReadOnly(attempts, t) ==
    LET recentAttempts == Recent(attempts, t) IN
    [allowed |-> Len(recentAttempts) < maxAttempts, cache |-> attempts]

\* checkRateLimit(key): the verdict and the history it leaves in the cache.
checkRateLimit(attempts, t) ==
    LET recentAttempts == Recent(attempts, t) IN
    IF Len(recentAttempts) >= maxAttempts
      THEN [allowed |-> FALSE, cache |-> attempts]
      ELSE [allowed |-> TRUE, cache |-> Append(recentAttempts, t)]

\* A logAttempt that stores a fresh array holding only the new attempt.
logAttempt_Overwrite(attempts, t) == <<t>>

\* Lines 47-51: no await between the get, the push and the set.
logAttempt(attempts, t) == Append(attempts, t)

RateKey(ip, email) == <<ip, email>>

\* ----------------------------------------------------------------- CAPTCHA
CaptchaAnswers == {"success", "nonsuccess"}

\* A verifier that fails open when the siteverify call throws.
verifyCaptcha_FailOpen(token, outcome) ==
    IF ~Truthy(token) THEN FALSE ELSE outcome # "nonsuccess"

verifyCaptcha(token, outcome) ==
    IF ~Truthy(token) THEN FALSE ELSE outcome = "success"

\* ------------------------------------------------------------- fingerprint
HeaderSeed == "ua|lang|xff"

\* A fallback without the fresh uuid: the headers alone are hashed.
getDeviceFingerprint_NoUuid(headers, frontendFingerprint, uuid) ==
    IF Truthy(frontendFingerprint)
      THEN [sha256 |-> frontendFingerprint, uuid |-> 0]
      ELSE [sha256 |-> headers, uuid |-> 1]

\* sha256 is injective on the sources the model draws; uuid = 0 marks a
\* client-supplied source, uuid >= 1 the fresh uuidv4() of the fallback.
getDeviceFingerprint(headers, frontendFingerprint, uuid) ==
    IF Truthy(frontendFingerprint)
      THEN [sha256 |-> frontendFingerprint, uuid |-> 0]
      ELSE [sha256 |-> headers, uuid |-> uuid]

NoFingerprint == [sha256 |-> "", uuid |-> 0]

\* ------------------------------------------------------------------- users
UserId(email) == IF email = "alice@x" THEN "u1" ELSE "u2"

UserRow(email, verified, suspended, reason, honeytoken, encrypted, plain) ==
    [id |-> UserId(email), email |-> email, verified |-> verified,
     suspended |-> suspended, suspension_reason |-> reason,
     is_honeytoken |-> honeytoken, encrypted_password |-> encrypted,
     password |-> plain, last_login |-> 0,
     last_fingerprint |-> NoFingerprint, online |-> FALSE]

Profiles(email) ==
    { {UserRow(email, "true", FALSE, "", FALSE, bcryptHash(PwStrong), EmptyHash)},
      {UserRow(email, "null", FALSE, "", FALSE, EmptyHash, bcryptHash(PwStrong))},
      {UserRow(email, "false", FALSE, "", FALSE, bcryptHash(PwStrong), EmptyHash)},
      {UserRow(email, "true", TRUE, "spam", FALSE, bcryptHash(PwStrong), EmptyHash)},
      {UserRow(email, "true", TRUE, "", TRUE, bcryptHash(PwStrong), EmptyHash)},
      {UserRow(email, "true", FALSE, "", TRUE, bcryptHash(PwStrong), EmptyHash)},
      {UserRow(email, "true", FALSE, "", FALSE, bcryptHash(PwWeak), EmptyHash)},
      {UserRow(email, "true", FALSE, "", FALSE, EmptyHash, EmptyHash)},
      {} }

\* .maybeSingle(): the row, nothing, or an error when several rows match.
MaybeSingle(rows) ==
    IF Cardinality(rows) > 1 THEN [data |-> {}, error |-> TRUE]
    ELSE [data |-> rows, error |-> FALSE]

\* ---------------------------------------------------------------- requests
Request(email, password, remember, captcha, fingerprint, code) ==
    [method |-> "POST", email |-> email, password |-> password,
     remember_me |-> remember, captcha_token |-> captcha, google |-> FALSE,
     fingerprint |-> fingerprint, verification_code |-> code,
     ip |-> "10.0.0.1", headers |-> HeaderSeed]

NoRequest == [Request("", <<>>, FALSE, "", "", "") EXCEPT !.headers = ""]

\* ------------------------------------------------------------------- state
VARIABLES
    now,                    \* the server clock, in seconds
    ticksLeft,              \* clock advances the run may still take
    faultsLeft,             \* collaborator failures the run may still see
    rateLimitCache,         \* key -> sequence of attempt timestamps
    users,                  \* rows of the users table
    pending_verifications,  \* rows of the pending_verifications table
    sessions,               \* rows of the sessions table
    uuidSeq,                \* uuidv4() / randomBytes() values drawn so far
    requestsLeft,           \* requests the run may still receive
    pc, req, loc, resp, trace,  \* per request slot
    failedAttempts,         \* key -> admission times of the requests that failed
    prev,                   \* what the request that ended last did
    login_attempts,         \* rows of the login_attempts table (src/api/rateLimit.js)
    call,                   \* per slot: the call of src/api/rateLimit.js in progress
    me,                     \* per slot: the session-cookie request in progress
    admitted,               \* key -> times at which checkRateLimit returned true
    likes,                  \* rows of the likes table
    videos,                 \* rows of the videos table
    comments,               \* rows of the comments table
    media                   \* per slot: the like, upload or comment request in progress

vars == <<now, ticksLeft, faultsLeft, rateLimitCache, users, pending_verifications, sessions,
          uuidSeq, requestsLeft, pc, req, loc, resp, trace, failedAttempts, prev,
          login_attempts, call, me, admitted, likes, videos, comments, media>>

limiterVars == <<login_attempts, call>>

mediaVars == <<likes, videos, comments, media>>

storeVars == <<users, pending_verifications, sessions>>

Keys == {RateKey(ip, email) : ip \in IPs, email \in Emails \cup {""}}

NoToken == [iv |-> 0, tag |-> 0, encrypted |-> 0]
NoCookie == [name |-> "", token |-> NoToken, max_age |-> 0]

Response(status, success, error) ==
    [status |-> status, success |-> success, error |-> error,
     verification_required |-> FALSE, redirect |-> "",
     set_cookie |-> NoCookie, session_expires |-> 0, at |-> 0]

NoResponse == Response(0, FALSE, "")

NoLocals ==
    [attempts |-> <<>>, rlNow |-> 0, allowed |-> FALSE,
     user |-> {}, passwordValid |-> FALSE,
     deviceFingerprint |-> NoFingerprint,
     captchaOutcome |-> "", captchaOk |-> FALSE,
     code |-> "", expires_at |-> 0,
     pending |-> {}, checkedAt |-> 0,
     last_login |-> 0, expiresInDays |-> 0, sessionData |-> {},
     storeFailed |-> FALSE, deleteFailed |-> FALSE,
     after |-> NoResponse]

NoCall == [fn |-> "", pc |-> "idle", ip |-> "", since |-> 0, outcome |-> "",
           count |-> 0, result |-> FALSE]

\* The session cookie as the client sent it: the text of a token, followed
\* or not by more characters ('=' and after).
CookieValue(token, tail) == [token |-> token, tail |-> tail]
NoCookieHeader == CookieValue(NoToken, "")

NoSessionRequest == [handler |-> "", method |-> "", cookie |-> NoCookieHeader]

NoMe == [pc |-> "idle", q |-> NoSessionRequest, sessionToken |-> NoCookieHeader,
         session |-> {}, user |-> {}, userError |-> FALSE,
         status |-> 0, error |-> "", fixed |-> FALSE]

\* A request to like-video, upload-video or view-videos: the cookie, the
\* video it names, and the action (like, unlike, complete, comment) with
\* the success flag of 'complete'.
NoMediaRequest ==
    [handler |-> "", method |-> "", cookie |-> NoCookieHeader,
     videoId |-> "", action |-> "", success |-> FALSE]

NoMedia == [pc |-> "idle", q |-> NoMediaRequest, sessionToken |-> NoCookieHeader,
            session |-> {}, user |-> {}, userId |-> "", video |-> {},
            alreadyLiked |-> FALSE, status |-> 0, error |-> "", message |-> "",
            wrote |-> <<>>]

NoPrev == [kind |-> "none", email |-> "", fingerprint |-> "", code |-> "",
           expires_at |-> 0]

Key(r) == RateKey(req[r].ip, req[r].email)
TheUser(r) == CHOOSE u \in loc[r].user : TRUE

\* Error texts of the handler.
ErrRequired == "Email and password are required"
ErrTooMany == "Too many login attempts. Please try again in 15 minutes."
ErrUnavailable == "Authentication service temporarily unavailable"
ErrInvalid == "Invalid email or password"
ErrSuspended == "Account suspended. Please contact support."
ErrUnverified == "Please verify your email address before logging in."
ErrPolicy == "Password does not meet security requirements. Must be 8+ characters with uppercase, lowercase, number, and special character."
ErrCaptcha == "CAPTCHA verification failed. Please try again."
ErrGenerate == "Failed to generate verification code"
ErrSend == "Failed to send verification email. Please try again."
ErrVerify == "Failed to verify code"
ErrCode == "Invalid verification code"
ErrExpired == "Verification code has expired. Please request a new one."
ErrSessionRetry == "Failed to create session. Please try again."
ErrSession == "Failed to create session"
ErrInternal == "Internal server error"

\* The handlers at rest, before any request.
InitHandlers ==
    /\ now = 0
    /\ rateLimitCache = [k \in Keys |-> <<>>]
    /\ pending_verifications = {}
    /\ pc = [r \in Slots |-> "idle"]
    /\ req = [r \in Slots |-> NoRequest]
    /\ loc = [r \in Slots |-> NoLocals]
    /\ resp = [r \in Slots |-> NoResponse]
    /\ trace = [r \in Slots |-> <<>>]
    /\ failedAttempts = [k \in Keys |-> <<>>]
    /\ prev = NoPrev
    /\ login_attempts = {}
    /\ call = [c \in Slots |-> NoCall]
    /\ me = [m \in Slots |-> NoMe]
    /\ admitted = [k \in Keys |-> <<>>]
    /\ media = [m \in Slots |-> NoMedia]

InitCore ==
    /\ InitHandlers
    /\ sessions = {}
    /\ uuidSeq = 0

InitCommon ==
    /\ InitCore
    /\ likes = {}
    /\ videos = {}
    /\ comments = {}

Init ==
    /\ InitCommon
    /\ users \in Profiles("alice@x")
    /\ requestsLeft = MaxRequests
    /\ ticksLeft = MaxTicks
    /\ faultsLeft = MaxFaults

\* --------------------------------------------------------- response steps
Did(r, event) == trace' = [trace EXCEPT ![r] = Append(@, event)]
DidAll(r, events) == trace' = [trace EXCEPT ![r] = @ \o events]

\* An answer that is never sent: the invocation hangs.
Respond_Never(r, rsp) ==
    /\ pc' = [pc EXCEPT ![r] = "hung"]
    /\ UNCHANGED resp

\* res.status(..).json(..): the request is answered.
Respond(r, rsp) ==
    /\ pc' = [pc EXCEPT ![r] = "done"]
    /\ resp' = [resp EXCEPT ![r] = [rsp EXCEPT !.at = now]]

\* A failure answered at once, without awaiting randomDelay().
DelayThen_Skipped(r, rsp, locals) ==
    /\ Respond(r, rsp)
    /\ loc' = [loc EXCEPT ![r] = locals]

\* await randomDelay() is pending; `rsp` is returned when it completes.
DelayThen(r, rsp, locals) ==
    /\ pc' = [pc EXCEPT ![r] = "delay"]
    /\ loc' = [loc EXCEPT ![r] = [locals EXCEPT !.after = rsp]]
    /\ UNCHANGED resp

\* A collaborator (store, mail transport, CAPTCHA verifier) may fail while
\* the run has failures left.
MayFail == IF faultsLeft > 0 THEN BOOLEAN ELSE {FALSE}
Failed(b) == faultsLeft' = IF b THEN faultsLeft - 1 ELSE faultsLeft

\* ------------------------------------------------- the handler, by segment

\* Lines 141-200: method, body, required fields, the Google shortcut and the
\* rate-limit check (checkRateLimit has no await of its own: it runs with
\* the segment that calls it).
Start(r, q) ==
    /\ pc[r] = "idle"
    /\ UNCHANGED <<limiterVars, me, mediaVars>>
    /\ req' = [req EXCEPT ![r] = q]
    /\ requestsLeft > 0
    /\ requestsLeft' = requestsLeft - 1
    /\ UNCHANGED <<now, ticksLeft, faultsLeft, storeVars, uuidSeq, failedAttempts, prev>>
    /\ IF q.method = "OPTIONS" THEN
            /\ Respond(r, Response(200, FALSE, ""))
            /\ trace' = [trace EXCEPT ![r] = <<>>]
            /\ loc' = [loc EXCEPT ![r] = NoLocals]
            /\ UNCHANGED rateLimitCache
       ELSE IF q.method # "POST" THEN
            /\ Respond(r, Response(405, FALSE, "Method not allowed"))
            /\ trace' = [trace EXCEPT ![r] = <<>>]
            /\ loc' = [loc EXCEPT ![r] = NoLocals]
            /\ UNCHANGED rateLimitCache
       ELSE IF ~Truthy(q.email) \/ q.password = <<>> THEN
            /\ Respond(r, Response(400, FALSE, ErrRequired))
            /\ trace' = [trace EXCEPT ![r] = <<>>]
            /\ loc' = [loc EXCEPT ![r] = NoLocals]
            /\ UNCHANGED rateLimitCache
       ELSE IF q.google THEN
            /\ Respond(r, [Response(200, TRUE, "") EXCEPT
                              !.redirect = "/api/auth/google"])
            /\ trace' = [trace EXCEPT ![r] = <<>>]
            /\ loc' = [loc EXCEPT ![r] = NoLocals]
            /\ UNCHANGED rateLimitCache
       ELSE LET key == RateKey(q.ip, q.email)
                attempts == rateLimitCache[key]
                verdict == checkRateLimit(attempts, now)
                locals == [NoLocals EXCEPT !.attempts = attempts,
                                           !.rlNow = now,
                                           !.allowed = verdict.allowed]
            IN  /\ rateLimitCache' = [rateLimitCache EXCEPT ![key] = verdict.cache]
                /\ trace' = [trace EXCEPT ![r] = <<"checkRateLimit">>]
                /\ loc' = [loc EXCEPT ![r] = locals]
                /\ IF verdict.allowed
                     THEN pc' = [pc EXCEPT ![r] = "fetchUser"] /\ UNCHANGED resp
                     ELSE Respond(r, Response(429, FALSE, ErrTooMany))

\* Lines 202-217: the user row is read; a store error is logged as an
\* attempt and answered 500 after the delay.
FetchUser(r) ==
    /\ pc[r] = "fetchUser"
    /\ UNCHANGED <<limiterVars, me, admitted, mediaVars>>
    /\ UNCHANGED <<now, ticksLeft, storeVars, uuidSeq, requestsLeft, req, failedAttempts, prev>>
    /\ \E storeError \in MayFail  : Failed(storeError) /\
         LET result == MaybeSingle({u \in users : u.email = req[r].email})
             userError == storeError \/ result.error
         IN  IF userError THEN
                  /\ rateLimitCache' = [rateLimitCache EXCEPT
                         ![Key(r)] = logAttempt(@, now)]
                  /\ DidAll(r, <<"users.select:error", "logAttempt">>)
                  /\ DelayThen(r, Response(500, FALSE, ErrUnavailable),
                               [loc[r] EXCEPT !.storeFailed = TRUE])
             ELSE /\ loc' = [loc EXCEPT ![r].user = result.data]
                  /\ Did(r, "users.select")
                  /\ pc' = [pc EXCEPT ![r] = "verify"]
                  /\ UNCHANGED <<rateLimitCache, resp>>

\* Line 223: user.encrypted_password || user.password || ''.
PasswordToCheck(user) ==
    IF user.encrypted_password # EmptyHash THEN user.encrypted_password
    ELSE user.password

\* Lines 220-227: the comparisons made for the stored hash, and the verdict.
StoredCompares(userRows) ==
    IF userRows # {} /\ PasswordToCheck(CHOOSE u \in userRows : TRUE) # EmptyHash
      THEN <<"bcrypt.compare">> ELSE <<>>

\* A verdict that accepts any password of an existing account.
PasswordValid_AnyPassword(userRows, password) == userRows # {}

PasswordValid(userRows, password) ==
    /\ userRows # {}
    /\ LET passwordToCheck == PasswordToCheck(CHOOSE u \in userRows : TRUE)
       IN  passwordToCheck # EmptyHash /\ bcryptCompare(password, passwordToCheck)

\* Lines 229-241: the dummy comparison of the failure branch.
DummyCompares(userRows, passwordValid) ==
    IF userRows = {} \/ ~passwordValid THEN <<"bcrypt.compare">> ELSE <<>>

\* Lines 243-274: the account checks that follow a valid password, in order.
\* Account checks without the honeytoken branch.
AccountCheck_NoHoneytoken(user, password) ==
    IF user.suspended THEN "suspended"
    ELSE IF user.verified = "false" THEN "unverified"
    ELSE IF ~passwordStrongEnough(password) THEN "weak"
    ELSE "ok"

\* Account checks without the password policy.
AccountCheck_NoPolicy(user, password) ==
    IF user.suspended THEN "suspended"
    ELSE IF user.is_honeytoken THEN "honeytoken"
    ELSE IF user.verified = "false" THEN "unverified"
    ELSE "ok"

AccountCheck(user, password) ==
    IF user.suspended THEN "suspended"
    ELSE IF user.is_honeytoken THEN "honeytoken"
    ELSE IF user.verified = "false" THEN "unverified"
    ELSE IF ~passwordStrongEnough(password) THEN "weak"
    ELSE "ok"

SuspensionError(user) ==
    IF Truthy(user.suspension_reason) THEN user.suspension_reason
    ELSE ErrSuspended

\* A CAPTCHA check on every pass.
CaptchaRequired_Always(verification_code) == TRUE

\* Lines 279 and 292: if (!verification_code).
CaptchaRequired(verification_code) == ~Truthy(verification_code)

\* Lines 219-289: password verification, account checks, fingerprint, and
\* the call of verifyCaptcha (first pass) or of the pending select (second).
VerifyPassword(r) ==
    /\ pc[r] = "verify"
    /\ UNCHANGED <<limiterVars, me, admitted, mediaVars>>
    /\ UNCHANGED <<now, ticksLeft, faultsLeft, storeVars, requestsLeft, req,
                   failedAttempts, prev>>
    /\ LET q == req[r]
           passwordValid == PasswordValid(loc[r].user, q.password)
           compares == StoredCompares(loc[r].user)
                         \o DummyCompares(loc[r].user, passwordValid)
           locals == [loc[r] EXCEPT !.passwordValid = passwordValid]
       IN  IF loc[r].user = {} \/ ~passwordValid THEN
                /\ rateLimitCache' = [rateLimitCache EXCEPT
                       ![Key(r)] = logAttempt(@, now)]
                /\ DidAll(r, compares \o <<"logAttempt">>)
                /\ DelayThen(r, Response(401, FALSE, ErrInvalid), locals)
                /\ UNCHANGED uuidSeq
           ELSE LET check == AccountCheck(TheUser(r), q.password) IN
                CASE check = "suspended" ->
                       /\ Respond(r, Response(403, FALSE, SuspensionError(TheUser(r))))
                       /\ loc' = [loc EXCEPT ![r] = locals]
                       /\ DidAll(r, compares)
                       /\ UNCHANGED <<rateLimitCache, uuidSeq>>
                  [] check = "honeytoken" ->
                       /\ rateLimitCache' = [rateLimitCache EXCEPT
                              ![Key(r)] = logAttempt(@, now)]
                       /\ DidAll(r, compares \o <<"logAttempt">>)
                       /\ DelayThen(r, Response(401, FALSE, ErrInvalid), locals)
                       /\ UNCHANGED uuidSeq
                  [] check = "unverified" ->
                       /\ Respond(r, Response(403, FALSE, ErrUnverified))
                       /\ loc' = [loc EXCEPT ![r] = locals]
                       /\ DidAll(r, compares)
                       /\ UNCHANGED <<rateLimitCache, uuidSeq>>
                  [] check = "weak" ->
                       /\ Respond(r, Response(400, FALSE, ErrPolicy))
                       /\ loc' = [loc EXCEPT ![r] = locals]
                       /\ DidAll(r, compares)
                       /\ UNCHANGED <<rateLimitCache, uuidSeq>>
                  [] OTHER ->
                       LET fresh == ~Truthy(q.fingerprint)
                           fp == getDeviceFingerprint(q.headers, q.fingerprint,
                                                      uuidSeq + 1)
                       IN  /\ uuidSeq' = IF fresh THEN uuidSeq + 1 ELSE uuidSeq
                           /\ loc' = [loc EXCEPT ![r] =
                                  [locals EXCEPT !.deviceFingerprint = fp]]
                           /\ IF CaptchaRequired(q.verification_code)
                                THEN /\ pc' = [pc EXCEPT ![r] = "captcha"]
                                     /\ DidAll(r, compares \o <<"verifyCaptcha">>)
                                ELSE /\ pc' = [pc EXCEPT ![r] = "selectPending"]
                                     /\ DidAll(r, compares)
                           /\ UNCHANGED <<rateLimitCache, resp>>

\* Lines 54-71 and 279-305: verifyCaptcha resolves; on success the code is
\* drawn and the upsert is sent.
Captcha(r) ==
    /\ pc[r] = "captcha"
    /\ UNCHANGED <<limiterVars, me, admitted, mediaVars>>
    /\ UNCHANGED <<now, ticksLeft, storeVars, uuidSeq, requestsLeft, req, failedAttempts, prev>>
    /\ \E outcome \in CaptchaAnswers \cup {"throw"}, code \in Codes :
         (outcome = "throw" => Truthy(req[r].captcha_token) /\ faultsLeft > 0) /\
         Failed(outcome = "throw") /\
         LET token == req[r].captcha_token
             captchaOk == verifyCaptcha(token, outcome)
             called == IF Truthy(token) THEN <<"hcaptcha.siteverify">> ELSE <<>>
             locals == [loc[r] EXCEPT
                          !.captchaOutcome = IF Truthy(token) THEN outcome ELSE "",
                          !.captchaOk = captchaOk]
         IN  IF ~captchaOk THEN
                  /\ rateLimitCache' = [rateLimitCache EXCEPT
                         ![Key(r)] = logAttempt(@, now)]
                  /\ DidAll(r, called \o <<"logAttempt">>)
                  /\ DelayThen(r, Response(403, FALSE, ErrCaptcha), locals)
             ELSE /\ loc' = [loc EXCEPT ![r] =
                         [locals EXCEPT !.code = code, !.expires_at = now + 60]]
                  /\ DidAll(r, called)
                  /\ pc' = [pc EXCEPT ![r] = "upsert"]
                  /\ UNCHANGED <<rateLimitCache, resp>>

\* A plain insert: the row is added whatever the store holds for its key.
Upsert_Insert(rows, row) == rows \cup {row}

\* .upsert(row, { onConflict: 'email, fingerprint' }).
Upsert(rows, row) ==
    {p \in rows : ~(p.email = row.email /\ p.fingerprint = row.fingerprint)}
        \cup {row}

\* Lines 295-313: the pending row is written, or the store fails (500).
UpsertPending(r) ==
    /\ pc[r] = "upsert"
    /\ UNCHANGED <<limiterVars, me, admitted, mediaVars>>
    /\ UNCHANGED <<now, ticksLeft, rateLimitCache, users, sessions, uuidSeq,
                   requestsLeft, req, failedAttempts, prev>>
    /\ \E upsertError \in MayFail  : Failed(upsertError) /\
         IF upsertError THEN
              /\ Respond(r, Response(500, FALSE, ErrGenerate))
              /\ loc' = [loc EXCEPT ![r].storeFailed = TRUE]
              /\ Did(r, "pending.upsert:error")
              /\ UNCHANGED pending_verifications
         ELSE /\ pending_verifications' = Upsert(pending_verifications,
                     [email |-> req[r].email, code |-> loc[r].code,
                      fingerprint |-> loc[r].deviceFingerprint,
                      expires_at |-> loc[r].expires_at])
              /\ Did(r, "pending.upsert")
              /\ pc' = [pc EXCEPT ![r] = "email"]
              /\ UNCHANGED <<loc, resp>>

\* Lines 100-122 and 315-330: the mail is sent (200, verification required)
\* or the transport fails (500).
SendEmail(r) ==
    /\ pc[r] = "email"
    /\ UNCHANGED <<limiterVars, me, admitted, mediaVars>>
    /\ UNCHANGED <<now, ticksLeft, rateLimitCache, storeVars, uuidSeq, requestsLeft,
                   req, failedAttempts, prev>>
    /\ \E emailError \in MayFail : Failed(emailError) /\
         IF ~emailError THEN
              /\ Respond(r, [Response(200, TRUE, "") EXCEPT
                                !.verification_required = TRUE])
              /\ Did(r, "sendMail")
              /\ UNCHANGED loc
         ELSE /\ Respond(r, Response(500, FALSE, ErrSend))
              /\ loc' = [loc EXCEPT ![r].storeFailed = TRUE]
              /\ Did(r, "sendMail:error")

\* .select('*').eq('email', ..).eq('fingerprint', ..).
SelectPendingRows(rows, email, fingerprint) ==
    {p \in rows : p.email = email /\ p.fingerprint = fingerprint}

\* Line 348: !pending || pending.code !== verification_code.
\* A code check that accepts any code once a pending row exists.
CodeRejected_AnyCode(pendingRows, verification_code) == pendingRows = {}

CodeRejected(pendingRows, verification_code) ==
    pendingRows = {} \/ (CHOOSE p \in pendingRows : TRUE).code # verification_code

\* Line 356: new Date(pending.expires_at) < new Date().
Expired(pendingRow, t) == pendingRow.expires_at < t

\* Lines 332-368: the pending row is read and the submitted code checked.
SelectPending(r) ==
    /\ pc[r] = "selectPending"
    /\ UNCHANGED <<limiterVars, me, admitted, mediaVars>>
    /\ UNCHANGED <<now, ticksLeft, rateLimitCache, storeVars, uuidSeq, requestsLeft,
                   req, failedAttempts, prev>>
    /\ \E storeError \in MayFail  : Failed(storeError) /\
         LET result == MaybeSingle(SelectPendingRows(pending_verifications,
                           req[r].email, loc[r].deviceFingerprint))
             pendingError == storeError \/ result.error
             locals == [loc[r] EXCEPT !.pending = result.data, !.checkedAt = now]
         IN  IF pendingError THEN
                  /\ Respond(r, Response(500, FALSE, ErrVerify))
                  /\ loc' = [loc EXCEPT ![r].storeFailed = TRUE]
                  /\ Did(r, "pending.select:error")
             ELSE IF CodeRejected(result.data, req[r].verification_code) THEN
                  /\ Respond(r, Response(401, FALSE, ErrCode))
                  /\ loc' = [loc EXCEPT ![r] = locals]
                  /\ Did(r, "pending.select")
             ELSE /\ loc' = [loc EXCEPT ![r] = locals]
                  /\ Did(r, "pending.select")
                  /\ UNCHANGED resp
                  /\ IF Expired(CHOOSE p \in result.data : TRUE, now)
                       THEN pc' = [pc EXCEPT ![r] = "deleteExpired"]
                       ELSE pc' = [pc EXCEPT ![r] = "deletePending"]

\* .delete().eq('email', ..).eq('fingerprint', ..); its result is not read.
DeletePendingRows(rows, email, fingerprint) ==
    {p \in rows : ~(p.email = email /\ p.fingerprint = fingerprint)}

\* Lines 355-368: the expired row is deleted and the request answered 401.
DeleteExpired(r) ==
    /\ pc[r] = "deleteExpired"
    /\ UNCHANGED <<limiterVars, me, admitted, mediaVars>>
    /\ UNCHANGED <<now, ticksLeft, rateLimitCache, users, sessions, uuidSeq,
                   requestsLeft, req, failedAttempts, prev>>
    /\ Respond(r, Response(401, FALSE, ErrExpired))
    /\ \E deleteError \in MayFail  : Failed(deleteError) /\
         IF deleteError THEN
              /\ loc' = [loc EXCEPT ![r].storeFailed = TRUE, ![r].deleteFailed = TRUE]
              /\ Did(r, "pending.delete:error")
              /\ UNCHANGED pending_verifications
         ELSE /\ pending_verifications' = DeletePendingRows(pending_verifications,
                     req[r].email, loc[r].deviceFingerprint)
              /\ Did(r, "pending.delete")
              /\ UNCHANGED loc

\* Lines 370-385: the redeemed row is deleted, then the user update is sent.
DeletePending(r) ==
    /\ pc[r] = "deletePending"
    /\ UNCHANGED <<limiterVars, me, admitted, mediaVars>>
    /\ UNCHANGED <<now, ticksLeft, rateLimitCache, users, sessions, uuidSeq,
                   requestsLeft, req, resp, failedAttempts, prev>>
    /\ pc' = [pc EXCEPT ![r] = "updateUser"]
    /\ \E deleteError \in MayFail  : Failed(deleteError) /\
         IF deleteError THEN
              /\ loc' = [loc EXCEPT ![r].storeFailed = TRUE, ![r].deleteFailed = TRUE,
                                    ![r].last_login = now]
              /\ Did(r, "pending.delete:error")
              /\ UNCHANGED pending_verifications
         ELSE /\ pending_verifications' = DeletePendingRows(pending_verifications,
                     req[r].email, loc[r].deviceFingerprint)
              /\ loc' = [loc EXCEPT ![r].last_login = now]
              /\ Did(r, "pending.delete")

\* Lines 89-98: a fresh iv and a fresh uuid, encrypted under the server key.
generateEncryptedToken(n) == [iv |-> n, tag |-> n, encrypted |-> n]

\* Lines 393-394 and 445: the session lifetime, in days and in seconds.
\* A lifetime that ignores remember_me.
ExpiresInDays_NoRemember(remember_me) == 1

ExpiresInDays(remember_me) == IF remember_me THEN 90 ELSE 1
LifetimeSeconds(days) == days * 24 * 60 * 60

\* Lines 377-408: the user row is updated (an error is only logged), then
\* the token is generated and the session insert is sent.
UpdateUser(r) ==
    /\ pc[r] = "updateUser"
    /\ UNCHANGED <<limiterVars, me, admitted, mediaVars>>
    /\ UNCHANGED <<now, ticksLeft, rateLimitCache, pending_verifications, sessions,
                   requestsLeft, req, resp, failedAttempts, prev>>
    /\ pc' = [pc EXCEPT ![r] = "insertSession"]
    /\ uuidSeq' = uuidSeq + 1
    /\ \E updateError \in MayFail  : Failed(updateError) /\
         LET user == TheUser(r)
             session_token == generateEncryptedToken(uuidSeq + 1)
             expiresInDays == ExpiresInDays(req[r].remember_me)
             sessionData ==
                 [user_id |-> user.id, user_email |-> req[r].email,
                  session_token |-> session_token,
                  expires_at |-> now + LifetimeSeconds(expiresInDays),
                  verified |-> TRUE,
                  context |-> [ip |-> req[r].ip, user_agent |-> "ua",
                               timestamp |-> now]]
         IN  /\ loc' = [loc EXCEPT ![r].expiresInDays = expiresInDays,
                                   ![r].sessionData = {sessionData},
                                   ![r].storeFailed = @ \/ updateError]
             /\ IF updateError THEN
                     /\ Did(r, "users.update:error")
                     /\ UNCHANGED users
                ELSE /\ users' = {IF u.id = user.id
                                    THEN [u EXCEPT
                                           !.last_fingerprint = loc[r].deviceFingerprint,
                                           !.last_login = loc[r].last_login,
                                           !.online = TRUE]
                                    ELSE u : u \in users}
                     /\ Did(r, "users.update")

\* Lines 439-462: the cookie and the final response.
LoginResponse(sessionData, expiresInDays) ==
    [Response(200, TRUE, "") EXCEPT
        !.set_cookie = [name |-> "__Host-session_secure",
                        token |-> sessionData.session_token,
                        max_age |-> LifetimeSeconds(expiresInDays)],
        !.session_expires = sessionData.expires_at]

InsertErrors == {"foreign key constraint", "other"}

\* A retry after any failure of the insert.
Retryable_Any(sessionError) == TRUE

\* Line 418: sessionError.message.includes('foreign key constraint').
Retryable(sessionError) == sessionError = "foreign key constraint"

\* How a failed insert shows in the request's trace.
InsertEvent(sessionError) ==
    IF sessionError = "foreign key constraint"
      THEN "sessions.insert:foreign key" ELSE "sessions.insert:error"

\* Lines 410-437 and 439-462: the session insert.
InsertSession(r) ==
    /\ pc[r] = "insertSession"
    /\ UNCHANGED <<limiterVars, me, admitted, mediaVars>>
    /\ UNCHANGED <<now, ticksLeft, rateLimitCache, users, pending_verifications,
                   uuidSeq, requestsLeft, req, failedAttempts, prev>>
    /\ \E sessionError \in {"ok"} \cup InsertErrors :
         (sessionError # "ok" => faultsLeft > 0) /\
         Failed(sessionError # "ok") /\
         LET sessionData == CHOOSE d \in loc[r].sessionData : TRUE IN
         CASE sessionError = "ok" ->
                /\ sessions' = sessions \cup {sessionData}
                /\ DidAll(r, <<"sessions.insert", "Set-Cookie">>)
                /\ Respond(r, LoginResponse(sessionData, loc[r].expiresInDays))
                /\ UNCHANGED loc
           [] sessionError # "ok" /\ Retryable(sessionError) ->
                /\ pc' = [pc EXCEPT ![r] = "retryInsert"]
                /\ loc' = [loc EXCEPT
                       ![r].sessionData = {[sessionData EXCEPT !.user_id = ""]},
                       ![r].storeFailed = TRUE]
                /\ Did(r, InsertEvent(sessionError))
                /\ UNCHANGED <<sessions, resp>>
           [] OTHER ->
                /\ Respond(r, Response(500, FALSE, ErrSession))
                /\ loc' = [loc EXCEPT ![r].storeFailed = TRUE]
                /\ Did(r, "sessions.insert:error")
                /\ UNCHANGED sessions

\* Lines 418-430: the retry without user_id.
RetryInsert(r) ==
    /\ pc[r] = "retryInsert"
    /\ UNCHANGED <<limiterVars, me, admitted, mediaVars>>
    /\ UNCHANGED <<now, ticksLeft, rateLimitCache, users, pending_verifications,
                   uuidSeq, requestsLeft, req, loc, failedAttempts, prev>>
    /\ \E retryError \in MayFail  : Failed(retryError) /\
         LET sessionData == CHOOSE d \in loc[r].sessionData : TRUE IN
         IF retryError THEN
              /\ Respond(r, Response(500, FALSE, ErrSessionRetry))
              /\ Did(r, "sessions.insert:error")
              /\ UNCHANGED sessions
         ELSE /\ sessions' = sessions \cup {sessionData}
              /\ DidAll(r, <<"sessions.insert", "Set-Cookie">>)
              /\ Respond(r, LoginResponse(sessionData, loc[r].expiresInDays))

\* Lines 83-87: randomDelay() completes and the failure is answered.
Delay(r) ==
    /\ pc[r] = "delay"
    /\ UNCHANGED <<limiterVars, me, admitted, mediaVars>>
    /\ UNCHANGED <<now, ticksLeft, faultsLeft, rateLimitCache, storeVars, uuidSeq,
                   requestsLeft, req, loc, failedAttempts, prev>>
    /\ Did(r, "randomDelay")
    /\ Respond(r, loc[r].after)

\* Lines 464-471: an awaited call of the try block throws or rejects; the
\* catch answers 500. randomDelay() does not throw.
Awaiting == {"fetchUser", "verify", "captcha", "upsert", "email", "selectPending",
             "deleteExpired", "deletePending", "updateUser", "insertSession",
             "retryInsert"}

Throw(r) ==
    /\ pc[r] \in Awaiting
    /\ UNCHANGED <<limiterVars, me, admitted, mediaVars>>
    /\ faultsLeft > 0
    /\ faultsLeft' = faultsLeft - 1
    /\ Respond(r, Response(500, FALSE, ErrInternal))
    /\ loc' = [loc EXCEPT ![r].storeFailed = TRUE]
    /\ Did(r, "catch")
    /\ UNCHANGED <<now, ticksLeft, rateLimitCache, storeVars, uuidSeq, requestsLeft,
                   req, failedAttempts, prev>>

\* What a request leaves behind, for the claims that span two requests: the
\* code it issued (first pass answered 200), redeemed (session created), or
\* failed to match (401 'Invalid verification code': the row it read).
Summary(r) ==
    IF resp[r].status = 200 /\ resp[r].verification_required THEN
        [kind |-> "issued", email |-> req[r].email,
         fingerprint |-> req[r].fingerprint, code |-> loc[r].code,
         expires_at |-> loc[r].expires_at]
    ELSE IF resp[r].status = 200 /\ resp[r].set_cookie # NoCookie THEN
        [kind |-> "redeemed", email |-> req[r].email,
         fingerprint |-> req[r].fingerprint, code |-> req[r].verification_code,
         expires_at |-> (CHOOSE p \in loc[r].pending : TRUE).expires_at]
    ELSE IF resp[r].status = 401 /\ resp[r].error = ErrCode THEN
        [kind |-> "rejected", email |-> req[r].email,
         fingerprint |-> req[r].fingerprint,
         code |-> IF loc[r].pending = {} THEN ""
                  ELSE (CHOOSE p \in loc[r].pending : TRUE).code,
         expires_at |-> IF loc[r].pending = {} THEN 0
                        ELSE (CHOOSE p \in loc[r].pending : TRUE).expires_at]
    ELSE [NoPrev EXCEPT !.kind = "other"]

\* The invocation ends: the slot is free for the next request.
Finish(r) ==
    /\ pc[r] = "done"
    /\ UNCHANGED <<limiterVars, me, admitted, mediaVars>>
    /\ pc' = [pc EXCEPT ![r] = "idle"]
    /\ req' = [req EXCEPT ![r] = NoRequest]
    /\ loc' = [loc EXCEPT ![r] = NoLocals]
    /\ resp' = [resp EXCEPT ![r] = NoResponse]
    /\ trace' = [trace EXCEPT ![r] = <<>>]
    /\ prev' = Summary(r)
    /\ failedAttempts' =
         IF loc[r].allowed /\ resp[r].status # 200
           THEN [failedAttempts EXCEPT ![Key(r)] = Append(@, loc[r].rlNow)]
           ELSE failedAttempts
    /\ UNCHANGED <<now, ticksLeft, faultsLeft, rateLimitCache, storeVars, uuidSeq,
                   requestsLeft>>

\* The clock advances.
Tick(d) ==
    /\ ticksLeft > 0
    /\ UNCHANGED <<limiterVars, me, admitted, mediaVars>>
    /\ \A r \in Slots : pc[r] # "done"
    /\ now' = now + d
    /\ ticksLeft' = ticksLeft - 1
    /\ UNCHANGED <<faultsLeft, rateLimitCache, storeVars, uuidSeq, requestsLeft, pc, req, loc,
                   resp, trace, failedAttempts, prev>>

\* ------------------------------------------- src/api/rateLimit.js, by call
\* The store-backed limiter: attempts are rows of login_attempts, keyed by
\* the ip alone. Durations in seconds (windowMinutes * 60 * 1000 ms).
api_windowMinutes == 10
api_maxAttempts == 5

\* What the select or the insert comes back with.
StoreOutcomes == {"ok", "error", "throw"}

\* .select('id').eq('ip', ip).gte('created_at', since).
AttemptsSince(rows, ip, since) ==
    {a \in rows : a.ip = ip /\ a.created_at >= since}

\* A limiter that allows when the store cannot be read.
api_checkRateLimit_FailOpen(outcome, count) ==
    IF outcome # "ok" THEN TRUE ELSE count < api_maxAttempts

\* Lines 29-38: false on an error or a throw, else (data?.length || 0) <
\* maxAttempts.
api_checkRateLimit(outcome, count) ==
    IF outcome # "ok" THEN FALSE ELSE count < api_maxAttempts

\* Lines 14-20: checkRateLimit(ip) is called; without an ip it returns false
\* at once, else the select is sent.
ApiCheckCall(c, ip) ==
    /\ call[c].pc = "idle"
    /\ UNCHANGED <<me, admitted, mediaVars>>
    /\ requestsLeft > 0
    /\ requestsLeft' = requestsLeft - 1
    /\ call' = [call EXCEPT ![c] =
          IF ~Truthy(ip)
            THEN [NoCall EXCEPT !.fn = "checkRateLimit", !.pc = "returned",
                                !.result = FALSE]
            ELSE [NoCall EXCEPT !.fn = "checkRateLimit", !.pc = "select",
                                !.ip = ip,
                                !.since = now - api_windowMinutes * 60]]
    /\ UNCHANGED <<now, ticksLeft, faultsLeft, rateLimitCache, storeVars, uuidSeq,
                   pc, req, loc, resp, trace, failedAttempts, prev, login_attempts>>

\* Lines 22-38: the select settles and checkRateLimit returns.
ApiCheckSelect(c) ==
    /\ call[c].pc = "select"
    /\ UNCHANGED <<me, admitted, mediaVars>>
    /\ \E outcome \in StoreOutcomes :
         /\ outcome # "ok" => faultsLeft > 0
         /\ Failed(outcome # "ok")
         /\ LET data == AttemptsSince(login_attempts, call[c].ip, call[c].since)
                count == IF outcome = "ok" THEN Cardinality(data) ELSE 0
            IN  call' = [call EXCEPT ![c].pc = "returned",
                                     ![c].outcome = outcome,
                                     ![c].count = count,
                                     ![c].result = api_checkRateLimit(outcome, count)]
    /\ UNCHANGED <<now, ticksLeft, rateLimitCache, storeVars, uuidSeq, requestsLeft,
                   pc, req, loc, resp, trace, failedAttempts, prev, login_attempts>>

\* Lines 45-51: logAttempt(ip) is called; without an ip it returns at once,
\* else the insert is sent.
ApiLogCall(c, ip) ==
    /\ call[c].pc = "idle"
    /\ UNCHANGED <<me, admitted, mediaVars>>
    /\ requestsLeft > 0
    /\ requestsLeft' = requestsLeft - 1
    /\ call' = [call EXCEPT ![c] =
          IF ~Truthy(ip)
            THEN [NoCall EXCEPT !.fn = "logAttempt", !.pc = "returned"]
            ELSE [NoCall EXCEPT !.fn = "logAttempt", !.pc = "insert", !.ip = ip]]
    /\ UNCHANGED <<now, ticksLeft, faultsLeft, rateLimitCache, storeVars, uuidSeq,
                   pc, req, loc, resp, trace, failedAttempts, prev, login_attempts>>

\* Lines 48-58: the insert settles; an error or a throw is only logged.
ApiLogInsert(c) ==
    /\ call[c].pc = "insert"
    /\ UNCHANGED <<me, admitted, mediaVars>>
    /\ \E outcome \in StoreOutcomes :
         /\ outcome # "ok" => faultsLeft > 0
         /\ Failed(outcome # "ok")
         /\ call' = [call EXCEPT ![c].pc = "returned", ![c].outcome = outcome]
         /\ login_attempts' =
              IF outcome = "ok"
                THEN login_attempts \cup
                       {[id |-> Cardinality(login_attempts) + 1,
                         ip |-> call[c].ip, created_at |-> now]}
                ELSE login_attempts
    /\ UNCHANGED <<now, ticksLeft, rateLimitCache, storeVars, uuidSeq, requestsLeft,
                   pc, req, loc, resp, trace, failedAttempts, prev>>

\* The caller has the result; the slot is free for the next call.
ApiReturn(c) ==
    /\ call[c].pc = "returned"
    /\ UNCHANGED <<me, admitted, mediaVars>>
    /\ call' = [call EXCEPT ![c] = NoCall]
    /\ UNCHANGED <<now, ticksLeft, faultsLeft, rateLimitCache, storeVars, uuidSeq,
                   requestsLeft, pc, req, loc, resp, trace, failedAttempts, prev,
                   login_attempts>>


\* -------------------------- the handlers that accept the session cookie
\* src/api/me.js (handler "me") and the upload handler of part_001 with its
\* verifySession (handler "upload"), cut at their awaits. The upload
\* handler is followed up to its authentication decision (line 37).

\* The text of a persisted session_token, as a cookie carries it.
TokenText(token) == CookieValue(token, "")

\* cookie.parse(..)['__Host-session_secure']: the whole value of the cookie.
cookie_parse(cookie) == cookie

\* part_001 line 17: sessionCookie.split('=')[1], the text between the
\* first '=' of the cookie and the next.
splitEq1(cookie) == [cookie EXCEPT !.tail = ""]

\* A lookup that compares the encrypted segment only.
SessionsByToken_LastSegment(rows, sessionToken) ==
    {x \in rows : x.session_token.encrypted = sessionToken.token.encrypted}

\* .from('sessions').select(..).eq('session_token', sessionToken).
SessionsByToken(rows, sessionToken) ==
    {x \in rows : TokenText(x.session_token) = sessionToken}

\* An update that also extends the session (a sliding expiry).
FixUserId_Sliding(rows, sessionToken, id) ==
    {IF TokenText(x.session_token) = sessionToken
       THEN [x EXCEPT !.user_id = id, !.expires_at = @ + 1] ELSE x : x \in rows}

\* me.js lines 60-63: .update({ user_id: user.id }).eq('session_token', ..).
FixUserId(rows, sessionToken, id) ==
    {IF TokenText(x.session_token) = sessionToken
       THEN [x EXCEPT !.user_id = id] ELSE x : x \in rows}

MeAnswer(m, status, error) ==
    me' = [me EXCEPT ![m].pc = "done", ![m].status = status, ![m].error = error]

\* me.js lines 10-20 and part_001 lines 11-17, 29-33: method, cookie, token.
MeStart(m, q) ==
    /\ me[m].pc = "idle"
    /\ requestsLeft > 0
    /\ requestsLeft' = requestsLeft - 1
    /\ LET started == [NoMe EXCEPT !.q = q] IN
       IF q.handler = "me" THEN
            IF q.method # "GET" THEN
                 me' = [me EXCEPT ![m] = [started EXCEPT
                          !.pc = "done", !.status = 405, !.error = "Method not allowed"]]
            ELSE IF cookie_parse(q.cookie) = NoCookieHeader THEN
                 me' = [me EXCEPT ![m] = [started EXCEPT
                          !.pc = "done", !.status = 401, !.error = "Not authenticated"]]
            ELSE me' = [me EXCEPT ![m] = [started EXCEPT
                          !.pc = "selectSession",
                          !.sessionToken = cookie_parse(q.cookie)]]
       ELSE IF q.method # "POST" THEN
                 me' = [me EXCEPT ![m] = [started EXCEPT
                          !.pc = "done", !.status = 405, !.error = "Method Not Allowed"]]
            ELSE IF q.cookie = NoCookieHeader THEN
                 me' = [me EXCEPT ![m] = [started EXCEPT
                          !.pc = "done", !.status = 401, !.error = "Unauthorized"]]
            ELSE me' = [me EXCEPT ![m] = [started EXCEPT
                          !.pc = "selectSession",
                          !.sessionToken = splitEq1(q.cookie)]]
    /\ UNCHANGED <<now, ticksLeft, faultsLeft, rateLimitCache, storeVars, uuidSeq,
                   pc, req, loc, resp, trace, failedAttempts, prev, limiterVars, admitted, mediaVars>>

\* me.js lines 22-31 and part_001 lines 18-25, 33: the session row is read.
MeSelectSession(m) ==
    /\ me[m].pc = "selectSession"
    /\ \E storeError \in MayFail : Failed(storeError) /\
         LET result == MaybeSingle(SessionsByToken(sessions, me[m].sessionToken))
             sessionError == storeError \/ result.error
             session == IF sessionError THEN {} ELSE result.data
             row == CHOOSE x \in session : TRUE
         IN  IF me[m].q.handler = "me" THEN
                  IF sessionError \/ session = {} \/ row.expires_at < now THEN
                       MeAnswer(m, 401, "Session expired or invalid")
                  ELSE IF Truthy(row.user_id) THEN
                       me' = [me EXCEPT ![m].pc = "userById", ![m].session = session]
                  ELSE IF Truthy(row.user_email) THEN
                       me' = [me EXCEPT ![m].pc = "userByEmail", ![m].session = session]
                  ELSE MeAnswer(m, 404, "User not found")
             ELSE IF session = {} \/ ~row.verified \/ row.expires_at < now
                       \/ ~Truthy(row.user_email) THEN
                       MeAnswer(m, 401, "Unauthorized")
                  ELSE me' = [me EXCEPT ![m].pc = "uploadUser", ![m].session = session]
    /\ UNCHANGED <<now, ticksLeft, rateLimitCache, storeVars, uuidSeq, requestsLeft,
                   pc, req, loc, resp, trace, failedAttempts, prev, limiterVars, admitted, mediaVars>>

\* me.js lines 36-45: the user is looked up by the session's user_id.
MeUserById(m) ==
    /\ me[m].pc = "userById"
    /\ \E storeError \in MayFail : Failed(storeError) /\
         LET session == CHOOSE x \in me[m].session : TRUE
             result == MaybeSingle({u \in users : u.id = session.user_id})
             userError == storeError \/ result.error
             user == IF userError THEN {} ELSE result.data
         IN  IF user = {} /\ Truthy(session.user_email) THEN
                  me' = [me EXCEPT ![m].pc = "userByEmail", ![m].user = user,
                                   ![m].userError = userError]
             ELSE IF userError \/ user = {} THEN
                  me' = [me EXCEPT ![m].pc = "done", ![m].user = user,
                                   ![m].userError = userError,
                                   ![m].status = 404, ![m].error = "User not found"]
             ELSE me' = [me EXCEPT ![m].pc = "done", ![m].user = user,
                                   ![m].status = 200]
    /\ UNCHANGED <<now, ticksLeft, rateLimitCache, storeVars, uuidSeq, requestsLeft,
                   pc, req, loc, resp, trace, failedAttempts, prev, limiterVars, admitted, mediaVars>>

\* me.js lines 47-58 and 67-81: the user is looked up by the session's
\* user_email; a session whose user_id is missing or different is repaired.
MeUserByEmail(m) ==
    /\ me[m].pc = "userByEmail"
    /\ \E storeError \in MayFail : Failed(storeError) /\
         LET session == CHOOSE x \in me[m].session : TRUE
             result == MaybeSingle({u \in users : u.email = session.user_email})
             userError == storeError \/ result.error
             user == IF userError THEN {} ELSE result.data
         IN  IF user # {} /\ (~Truthy(session.user_id)
                               \/ session.user_id # (CHOOSE u \in user : TRUE).id) THEN
                  me' = [me EXCEPT ![m].pc = "fixSession", ![m].user = user,
                                   ![m].userError = userError]
             ELSE IF userError \/ user = {} THEN
                  me' = [me EXCEPT ![m].pc = "done", ![m].user = user,
                                   ![m].userError = userError,
                                   ![m].status = 404, ![m].error = "User not found"]
             ELSE me' = [me EXCEPT ![m].pc = "done", ![m].user = user,
                                   ![m].status = 200]
    /\ UNCHANGED <<now, ticksLeft, rateLimitCache, storeVars, uuidSeq, requestsLeft,
                   pc, req, loc, resp, trace, failedAttempts, prev, limiterVars, admitted, mediaVars>>

\* me.js lines 59-81: the update of the session row settles (its result is
\* not read) and the user is returned.
MeFixSession(m) ==
    /\ me[m].pc = "fixSession"
    /\ \E updateError \in MayFail : Failed(updateError) /\
         /\ sessions' =
              IF updateError THEN sessions
              ELSE FixUserId(sessions, me[m].sessionToken,
                             (CHOOSE u \in me[m].user : TRUE).id)
         /\ me' = [me EXCEPT ![m].pc = "done", ![m].status = 200,
                             ![m].fixed = ~updateError]
    /\ UNCHANGED <<now, ticksLeft, rateLimitCache, users, pending_verifications,
                   uuidSeq, requestsLeft, pc, req, loc, resp, trace, failedAttempts,
                   prev, limiterVars, admitted, mediaVars>>

\* part_001 lines 35-37: the user of the session's email is read; the
\* caller is authenticated as that user.
UploadUser(m) ==
    /\ me[m].pc = "uploadUser"
    /\ \E storeError \in MayFail : Failed(storeError) /\
         LET session == CHOOSE x \in me[m].session : TRUE
             result == MaybeSingle({u \in users : u.email = session.user_email})
             user == IF storeError \/ result.error THEN {} ELSE result.data
         IN  IF user = {} THEN
                  me' = [me EXCEPT ![m].pc = "done", ![m].status = 401,
                                   ![m].error = "User not found"]
             ELSE me' = [me EXCEPT ![m].pc = "done", ![m].user = user,
                                   ![m].status = 200]
    /\ UNCHANGED <<now, ticksLeft, rateLimitCache, storeVars, uuidSeq, requestsLeft,
                   pc, req, loc, resp, trace, failedAttempts, prev, limiterVars, admitted, mediaVars>>

\* me.js lines 82-85: an awaited call throws; the catch answers 500.
MeThrow(m) ==
    /\ me[m].pc \in {"selectSession", "userById", "userByEmail", "fixSession"}
    /\ me[m].q.handler = "me"
    /\ faultsLeft > 0
    /\ faultsLeft' = faultsLeft - 1
    /\ MeAnswer(m, 500, ErrInternal)
    /\ UNCHANGED <<now, ticksLeft, rateLimitCache, storeVars, uuidSeq, requestsLeft,
                   pc, req, loc, resp, trace, failedAttempts, prev, limiterVars, admitted, mediaVars>>

\* The request has been answered; the slot is free for the next one.
MeFinish(m) ==
    /\ me[m].pc = "done"
    /\ me' = [me EXCEPT ![m] = NoMe]
    /\ UNCHANGED <<now, ticksLeft, faultsLeft, rateLimitCache, storeVars, uuidSeq,
                   requestsLeft, pc, req, loc, resp, trace, failedAttempts, prev,
                   limiterVars, admitted, mediaVars>>

\* ------------------------- like-video.js, upload-video.js, view-videos.js
\* The three handlers of src/api that act for the user of the session
\* cookie, cut at their awaits: like-video (like and unlike), upload-video
\* (the 'complete' action of the JSON branch) and view-videos (POST, a new
\* comment). Reads that decide nothing (the video's owner, the like count)
\* and the notification insert go with the step that follows them.

\* The state every step of these handlers leaves alone.
loginVars == <<rateLimitCache, users, pending_verifications, pc, req, loc, resp,
               trace, failedAttempts, prev, limiterVars, me, admitted>>

VideoRow(id, user_id) ==
    [id |-> id, user_id |-> user_id, video_url |-> "", cover_url |-> "",
     likes_count |-> 0]

\* upload-video.js lines 249-262: the public URLs, rebuilt from the owner
\* and the id of the video.
PublicUrl(bucket, user_id, videoId) == <<bucket, user_id, videoId>>

\* like-video.js lines 98-104: the like rows of the user for the video.
LikesOf(rows, userEmail, videoId) ==
    {l \in rows : l.user_email = userEmail /\ l.target_id = videoId}

\* An expiry test that never finds a session expired.
SessionExpired_Never(row, t) == FALSE

\* like-video.js lines 48-49, upload-video.js lines 69-70:
\* new Date(session.expires_at) < new Date().
SessionExpired(row, t) == row.expires_at < t

MediaAnswer(m, status, error) ==
    media' = [media EXCEPT ![m].pc = "done", ![m].status = status,
                           ![m].error = error]

Wrote(m, event) == [media[m] EXCEPT !.wrote = Append(@, event)]

\* like-video.js lines 17-34, upload-video.js lines 42-57, view-videos.js
\* lines 16-49: method, cookie and token.
MediaStart(m, q) ==
    /\ media[m].pc = "idle"
    /\ requestsLeft > 0
    /\ requestsLeft' = requestsLeft - 1
    /\ LET started == [NoMedia EXCEPT !.q = q]
           sessionToken == cookie_parse(q.cookie)
       IN  IF q.handler = "view-videos" THEN
                IF sessionToken # NoCookieHeader THEN
                     media' = [media EXCEPT ![m] = [started EXCEPT
                                 !.pc = "selectSession", !.sessionToken = sessionToken]]
                ELSE media' = [media EXCEPT ![m] = [started EXCEPT
                                 !.pc = "done", !.status = 401,
                                 !.error = "Not authenticated"]]
           ELSE IF q.method = "OPTIONS" THEN
                media' = [media EXCEPT ![m] = [started EXCEPT
                            !.pc = "done", !.status = 200]]
           ELSE IF q.method # "POST" THEN
                media' = [media EXCEPT ![m] = [started EXCEPT
                            !.pc = "done", !.status = 405,
                            !.error = "Method not allowed"]]
           ELSE IF sessionToken = NoCookieHeader THEN
                media' = [media EXCEPT ![m] = [started EXCEPT
                            !.pc = "done", !.status = 401,
                            !.error = "Not authenticated"]]
           ELSE media' = [media EXCEPT ![m] = [started EXCEPT
                            !.pc = "selectSession", !.sessionToken = sessionToken]]
    /\ UNCHANGED <<now, ticksLeft, faultsLeft, storeVars, uuidSeq, loginVars,
                   likes, videos, comments>>

\* like-video.js lines 36-55, upload-video.js lines 59-73, view-videos.js
\* lines 25-57: the session row is read and its expiry tested.
MediaSelectSession(m) ==
    /\ media[m].pc = "selectSession"
    /\ \E storeError \in MayFail : Failed(storeError) /\
         LET result == MaybeSingle(SessionsByToken(sessions, media[m].sessionToken))
             sessionError == storeError \/ result.error
             session == IF sessionError THEN {} ELSE result.data
             row == CHOOSE x \in session : TRUE
         IN  IF media[m].q.handler = "view-videos" THEN
                  IF session # {} /\ row.expires_at > now /\ Truthy(row.user_id) THEN
                       IF ~Truthy(media[m].q.videoId) THEN
                            MediaAnswer(m, 400, "Video ID required")
                       ELSE media' = [media EXCEPT ![m].pc = "commentVideo",
                                                   ![m].session = session,
                                                   ![m].userId = row.user_id]
                  ELSE MediaAnswer(m, 401, "Not authenticated")
             ELSE IF sessionError \/ session = {} THEN
                  MediaAnswer(m, 401, "Session expired or invalid")
             ELSE IF SessionExpired(row, now) THEN
                  media' = [media EXCEPT ![m].pc = "deleteSession"]
             ELSE media' = [media EXCEPT ![m].pc = "user", ![m].session = session]
    /\ UNCHANGED <<now, ticksLeft, storeVars, uuidSeq, requestsLeft, loginVars,
                   likes, videos, comments>>

\* like-video.js lines 50-54, upload-video.js lines 71-72: the expired
\* session row is deleted (the result is not read) and the answer is 401.
MediaDeleteSession(m) ==
    /\ media[m].pc = "deleteSession"
    /\ \E deleteError \in MayFail : Failed(deleteError) /\
         /\ sessions' =
              IF deleteError THEN sessions
              ELSE sessions \ SessionsByToken(sessions, media[m].sessionToken)
         /\ media' = [media EXCEPT ![m].pc = "done", ![m].status = 401,
                                   ![m].error = "Session expired"]
    /\ UNCHANGED <<now, ticksLeft, users, pending_verifications, uuidSeq,
                   requestsLeft, rateLimitCache, pc, req, loc, resp, trace,
                   failedAttempts, prev, limiterVars, me, admitted,
                   likes, videos, comments>>

\* like-video.js lines 57-76, upload-video.js lines 75-86 and 217-235: the
\* user of the session's email is read; the body is looked at.
MediaUser(m) ==
    /\ media[m].pc = "user"
    /\ \E storeError \in MayFail : Failed(storeError) /\
         LET session == CHOOSE x \in media[m].session : TRUE
             result == MaybeSingle({u \in users : u.email = session.user_email})
             user == IF storeError \/ result.error THEN {} ELSE result.data
             q == media[m].q
             found == [media[m] EXCEPT !.user = user,
                                       !.userId = (CHOOSE u \in user : TRUE).id]
         IN  IF user = {} THEN MediaAnswer(m, 401, "User not found")
             ELSE IF q.handler = "like-video" THEN
                  IF ~Truthy(q.videoId) \/ ~Truthy(q.action) THEN
                       MediaAnswer(m, 400, "Missing videoId or action")
                  ELSE media' = [media EXCEPT ![m] = [found EXCEPT !.pc = "likeVideo"]]
             ELSE IF q.action # "complete" THEN
                  MediaAnswer(m, 400, "Invalid action")
             ELSE IF ~Truthy(q.videoId) THEN
                  MediaAnswer(m, 400, "Video ID is required")
             ELSE IF ~q.success THEN
                  media' = [media EXCEPT ![m] = [found EXCEPT !.pc = "deleteVideo"]]
             ELSE media' = [media EXCEPT ![m] = [found EXCEPT !.pc = "getVideo"]]
    /\ UNCHANGED <<now, ticksLeft, storeVars, uuidSeq, requestsLeft, loginVars,
                   likes, videos, comments>>

\* like-video.js lines 78-95: the video is read.
LikeVideo(m) ==
    /\ media[m].pc = "likeVideo"
    /\ \E storeError \in MayFail : Failed(storeError) /\
         LET result == MaybeSingle({v \in videos : v.id = media[m].q.videoId})
             video == IF storeError \/ result.error THEN {} ELSE result.data
         IN  IF video = {} THEN MediaAnswer(m, 404, "Video not found")
             ELSE media' = [media EXCEPT ![m].pc = "likeCheck", ![m].video = video]
    /\ UNCHANGED <<now, ticksLeft, storeVars, uuidSeq, requestsLeft, loginVars,
                   likes, videos, comments>>

\* like-video.js lines 97-127, 173-184, 202-204: the user's like of the
\* video is looked up (.maybeSingle()) and the action chosen.
LikeCheck(m) ==
    /\ media[m].pc = "likeCheck"
    /\ \E storeError \in MayFail : Failed(storeError) /\
         LET q == media[m].q
             userEmail == (CHOOSE u \in media[m].user : TRUE).email
             result == MaybeSingle(LikesOf(likes, userEmail, q.videoId))
             checkError == storeError \/ result.error
             alreadyLiked == result.data # {}
         IN  IF checkError THEN MediaAnswer(m, 500, "Error checking like status")
             ELSE IF q.action = "like" THEN
                  IF alreadyLiked THEN
                       media' = [media EXCEPT ![m].pc = "done", ![m].status = 200,
                                              ![m].alreadyLiked = TRUE,
                                              ![m].message = "Already liked"]
                  ELSE media' = [media EXCEPT ![m].pc = "likeInsert"]
             ELSE IF q.action = "unlike" THEN
                  IF ~alreadyLiked THEN
                       media' = [media EXCEPT ![m].pc = "done", ![m].status = 200,
                                              ![m].message = "Already not liked"]
                  ELSE media' = [media EXCEPT ![m].pc = "likeDelete",
                                              ![m].alreadyLiked = TRUE]
             ELSE MediaAnswer(m, 400, "Invalid action. Use \"like\" or \"unlike\"")
    /\ UNCHANGED <<now, ticksLeft, storeVars, uuidSeq, requestsLeft, loginVars,
                   likes, videos, comments>>

\* A like row as the insert of lines 130-137 writes it.
LikeRow(id, userEmail, videoId, t) ==
    [id |-> id, user_email |-> userEmail, target_type |-> "video",
     target_id |-> videoId, created_at |-> t]

\* An insert that leaves the table alone when the user's like is there.
InsertLike_IfAbsent(rows, row) ==
    IF LikesOf(rows, row.user_email, row.target_id) # {} THEN rows
    ELSE rows \cup {row}

\* like-video.js lines 130-137: .insert({...}).
InsertLike(rows, row) == rows \cup {row}

\* like-video.js lines 129-145: the like row is inserted.
LikeInsert(m) ==
    /\ media[m].pc = "likeInsert"
    /\ \E insertError \in MayFail : Failed(insertError) /\
         LET userEmail == (CHOOSE u \in media[m].user : TRUE).email IN
         IF insertError THEN
              /\ MediaAnswer(m, 500, "Failed to like video")
              /\ UNCHANGED <<likes, uuidSeq>>
         ELSE /\ likes' = InsertLike(likes, LikeRow(uuidSeq + 1, userEmail,
                                                   media[m].q.videoId, now))
              /\ uuidSeq' = uuidSeq + 1
              /\ media' = [media EXCEPT ![m] =
                             [Wrote(m, "likes.insert") EXCEPT
                                !.pc = "likeTouch",
                                !.message = "Video liked successfully"]]
    /\ UNCHANGED <<now, ticksLeft, storeVars, requestsLeft, loginVars,
                   videos, comments>>

\* like-video.js lines 186-200: the user's like rows of the video are deleted.
LikeDelete(m) ==
    /\ media[m].pc = "likeDelete"
    /\ \E deleteError \in MayFail : Failed(deleteError) /\
         LET userEmail == (CHOOSE u \in media[m].user : TRUE).email IN
         IF deleteError THEN
              /\ MediaAnswer(m, 500, "Failed to unlike video")
              /\ UNCHANGED likes
         ELSE /\ likes' = likes \ LikesOf(likes, userEmail, media[m].q.videoId)
              /\ media' = [media EXCEPT ![m] =
                             [Wrote(m, "likes.delete") EXCEPT
                                !.pc = "likeTouch",
                                !.message = "Video unliked successfully"]]
    /\ UNCHANGED <<now, ticksLeft, storeVars, uuidSeq, requestsLeft, loginVars,
                   videos, comments>>

\* like-video.js lines 147-171 and 206-236: the notification, the count of
\* the video's likes, and the update of the video's likes_count (a failure
\* is caught); then the answer.
LikeTouch(m) ==
    /\ media[m].pc = "likeTouch"
    /\ \E updateError \in MayFail : Failed(updateError) /\
         LET videoId == media[m].q.videoId
             updatedLikes == Cardinality({l \in likes : l.target_id = videoId})
         IN  /\ videos' =
                  IF updateError THEN videos
                  ELSE {IF v.id = videoId
                          THEN [v EXCEPT !.likes_count = updatedLikes] ELSE v
                        : v \in videos}
             /\ media' = [media EXCEPT ![m] =
                            [Wrote(m, "videos.update") EXCEPT
                               !.pc = "done", !.status = 200]]
    /\ UNCHANGED <<now, ticksLeft, storeVars, uuidSeq, requestsLeft, loginVars,
                   likes, comments>>

\* upload-video.js lines 229-235 (part_001 630-637): success is false; the
\* video of that id is deleted and the answer is 400.
UploadDeleteVideo(m) ==
    /\ media[m].pc = "deleteVideo"
    /\ \E deleteError \in MayFail : Failed(deleteError) /\
         /\ videos' =
              IF deleteError THEN videos
              ELSE {v \in videos : v.id # media[m].q.videoId}
         /\ media' = [media EXCEPT ![m] =
                        [Wrote(m, "videos.delete") EXCEPT
                           !.pc = "done", !.status = 400, !.error = "Upload failed"]]
    /\ UNCHANGED <<now, ticksLeft, storeVars, uuidSeq, requestsLeft, loginVars,
                   likes, comments>>

\* upload-video.js lines 237-246 (part_001 639-650): the video is read.
UploadGetVideo(m) ==
    /\ media[m].pc = "getVideo"
    /\ \E storeError \in MayFail : Failed(storeError) /\
         LET result == MaybeSingle({v \in videos : v.id = media[m].q.videoId})
             video == IF storeError \/ result.error THEN {} ELSE result.data
         IN  IF video = {} THEN MediaAnswer(m, 404, "Video not found")
             ELSE media' = [media EXCEPT ![m].pc = "updateVideo", ![m].video = video]
    /\ UNCHANGED <<now, ticksLeft, storeVars, uuidSeq, requestsLeft, loginVars,
                   likes, videos, comments>>

\* The update of lines 265-273, for the videos of the user alone.
CompleteVideo_OwnerOnly(rows, videoId, userId) ==
    {IF v.id = videoId /\ v.user_id = userId
       THEN [v EXCEPT !.video_url = PublicUrl("videos", v.user_id, videoId),
                      !.cover_url = PublicUrl("covers", v.user_id, videoId)]
       ELSE v : v \in rows}

\* upload-video.js lines 265-273: .update({video_url, cover_url}).eq('id', videoId).
CompleteVideo(rows, videoId, userId) ==
    {IF v.id = videoId
       THEN [v EXCEPT !.video_url = PublicUrl("videos", v.user_id, videoId),
                      !.cover_url = PublicUrl("covers", v.user_id, videoId)]
       ELSE v : v \in rows}

\* upload-video.js lines 248-281 (part_001 652-693): the URLs are written.
UploadUpdateVideo(m) ==
    /\ media[m].pc = "updateVideo"
    /\ \E updateError \in MayFail : Failed(updateError) /\
         IF updateError THEN
              /\ MediaAnswer(m, 500, "Failed to update video metadata")
              /\ UNCHANGED videos
         ELSE /\ videos' = CompleteVideo(videos, media[m].q.videoId, media[m].userId)
              /\ media' = [media EXCEPT ![m] =
                             [Wrote(m, "videos.update") EXCEPT !.pc = "updateCount"]]
    /\ UNCHANGED <<now, ticksLeft, storeVars, uuidSeq, requestsLeft, loginVars,
                   likes, comments>>

\* upload-video.js lines 283-297: the user's video_count is raised (the
\* column is not part of the user rows kept here) and the answer is 200.
UploadUpdateCount(m) ==
    /\ media[m].pc = "updateCount"
    /\ media' = [media EXCEPT ![m] =
                   [Wrote(m, "users.update") EXCEPT
                      !.pc = "done", !.status = 200,
                      !.message = "Video uploaded successfully"]]
    /\ UNCHANGED <<now, ticksLeft, faultsLeft, storeVars, uuidSeq, requestsLeft,
                   loginVars, likes, videos, comments>>

\* view-videos.js lines 59-73: the video and the commenting user are read.
CommentVideo(m) ==
    /\ media[m].pc = "commentVideo"
    /\ \E storeError \in MayFail : Failed(storeError) /\
         LET result == MaybeSingle({v \in videos : v.id = media[m].q.videoId})
             video == IF storeError \/ result.error THEN {} ELSE result.data
         IN  IF video = {} THEN MediaAnswer(m, 404, "Video not found")
             ELSE media' = [media EXCEPT ![m].pc = "commentInsert", ![m].video = video]
    /\ UNCHANGED <<now, ticksLeft, storeVars, uuidSeq, requestsLeft, loginVars,
                   likes, videos, comments>>

\* view-videos.js lines 75-121: the comment is inserted for the session's
\* user_id; the video's timestamp and the notification follow.
CommentInsert(m) ==
    /\ media[m].pc = "commentInsert"
    /\ \E insertError \in MayFail : Failed(insertError) /\
         IF insertError THEN
              /\ MediaAnswer(m, 500, "insert failed")
              /\ UNCHANGED <<comments, uuidSeq>>
         ELSE /\ comments' = comments \cup
                    {[id |-> uuidSeq + 1, user_id |-> media[m].userId,
                      video_id |-> media[m].q.videoId]}
              /\ uuidSeq' = uuidSeq + 1
              /\ media' = [media EXCEPT ![m] =
                             [Wrote(m, "comments.insert") EXCEPT
                                !.pc = "done", !.status = 200]]
    /\ UNCHANGED <<now, ticksLeft, storeVars, requestsLeft, loginVars,
                   likes, videos>>

\* The request has been answered; the slot is free for the next one.
MediaFinish(m) ==
    /\ media[m].pc = "done"
    /\ media' = [media EXCEPT ![m] = NoMedia]
    /\ UNCHANGED <<now, ticksLeft, faultsLeft, storeVars, uuidSeq, requestsLeft,
                   loginVars, likes, videos, comments>>

\* ---------------------------------------------------------- specifications
AllIdle == \A s \in Slots : pc[s] = "idle"

\* A request arrives when the previous one has been answered (one
\* invocation at a time, in the first slot).
Arrive(requests) ==
    \E q \in requests : AllIdle /\ Start(1, q) /\ UNCHANGED admitted

\* The same arrival, with the admissions kept on record: the time of every
\* request that checkRateLimit lets through is appended to its key's list.
ArriveCounted(requests) ==
    \E q \in requests :
        /\ AllIdle /\ Start(1, q)
        /\ admitted' =
             IF pc'[1] = "fetchUser"
               THEN [admitted EXCEPT ![RateKey(q.ip, q.email)] = Append(@, now)]
               ELSE admitted

FirstPassSteps(r) ==
    \/ FetchUser(r)
    \/ VerifyPassword(r)
    \/ Captcha(r)
    \/ UpsertPending(r)
    \/ SendEmail(r)
    \/ Delay(r)
    \/ Finish(r)

SecondPassSteps(r) ==
    \/ SelectPending(r)
    \/ DeleteExpired(r)
    \/ DeletePending(r)
    \/ UpdateUser(r)
    \/ InsertSession(r)
    \/ RetryInsert(r)

\* Spec: any account, requests of every shape, one after the other: a bare
\* attempt with each password, the first pass with a CAPTCHA token, and the
\* second pass.
Requests ==
    {Request(e, p, FALSE, "", "", "") : e \in Emails, p \in Passwords}
    \cup {Request(e, PwStrong, FALSE, "captcha-token", f, "") :
              e \in Emails, f \in {"", "F1"}}
    \cup {Request(e, PwStrong, FALSE, "", "F1", v) : e \in Emails, v \in Codes}
    \cup {Request(e, PwStrong, FALSE, "", "", "100000") : e \in Emails}
    \cup {Request(e, PwStrong, TRUE, "", "F1", "100000") : e \in Emails}

Next ==
    \/ Arrive(Requests)
    \/ \E r \in Slots : FirstPassSteps(r) \/ SecondPassSteps(r)
    \/ \E d \in OtpTicks : Tick(d)

Spec == Init /\ [][Next]_vars

\* SpecFlow: one verified account and one client that sometimes mistypes
\* the password: the attempt with a wrong password, the first pass, and the
\* second pass with either code.
NormalUser(email) ==
    UserRow(email, "true", FALSE, "", FALSE, bcryptHash(PwStrong), EmptyHash)

InitFlow ==
    /\ InitCommon
    /\ users = {NormalUser("alice@x")}
    /\ requestsLeft = MaxFlowRequests
    /\ ticksLeft = MaxFlowTicks
    /\ faultsLeft = MaxFlowFaults

FlowRequests ==
    {Request("alice@x", PwWeak, FALSE, "", "F1", ""),
     Request("alice@x", PwStrong, FALSE, "captcha-token", "F1", "")}
    \cup {Request("alice@x", PwStrong, FALSE, "", "F1", v) : v \in Codes}

NextFlow ==
    \/ Arrive(FlowRequests)
    \/ \E r \in Slots : FirstPassSteps(r) \/ SecondPassSteps(r)
    \/ \E d \in OtpTicks : Tick(d)

SpecFlow == InitFlow /\ [][NextFlow]_vars

\* The accounts of SpecRate: normal, suspended, honeytoken, one whose
\* stored password fails the policy, and no account at all.
RateProfiles(email) ==
    { {UserRow(email, "true", FALSE, "", FALSE, bcryptHash(PwStrong), EmptyHash)},
      {UserRow(email, "true", TRUE, "spam", FALSE, bcryptHash(PwStrong), EmptyHash)},
      {UserRow(email, "true", FALSE, "", TRUE, bcryptHash(PwStrong), EmptyHash)},
      {UserRow(email, "true", FALSE, "", FALSE, bcryptHash(PwWeak), EmptyHash)},
      {} }

\* SpecRate: any account and a client that never completes the second
\* factor: attempts with either password, with and without a CAPTCHA token.
InitRate ==
    /\ InitCommon
    /\ users \in RateProfiles("alice@x")
    /\ requestsLeft = MaxRateRequests
    /\ ticksLeft = MaxRateTicks
    /\ faultsLeft = MaxRateFaults

RateRequests ==
    {Request("alice@x", p, FALSE, c, "F1", "") :
        p \in Passwords, c \in {"", "captcha-token"}}

NextRate ==
    \/ Arrive(RateRequests)
    \/ \E r \in Slots : FirstPassSteps(r)
    \/ \E d \in RateTicks : Tick(d)

SpecRate == InitRate /\ [][NextRate]_vars

\* SpecSession: an account that can log in and a client that completes the
\* second factor within the code's lifetime, with or without a fingerprint
\* of its own and with or without remember_me; up to two store failures.
SessionProfiles(email) ==
    { {NormalUser(email)},
      {UserRow(email, "null", FALSE, "", FALSE, EmptyHash, bcryptHash(PwStrong))} }

InitSession ==
    /\ InitCommon
    /\ users \in SessionProfiles("alice@x")
    /\ requestsLeft = MaxSessionRequests
    /\ ticksLeft = MaxSessionTicks
    /\ faultsLeft = MaxSessionFaults

SessionRequests ==
    {Request("alice@x", PwStrong, FALSE, "captcha-token", f, "") : f \in {"", "F1"}}
    \cup {Request("alice@x", PwStrong, m, "", f, "100000") :
              m \in BOOLEAN, f \in {"", "F1"}}

\* No code outlives its 60 seconds here: the expiry branch is never due.
RedeemSteps(r) ==
    \/ SelectPending(r)
    \/ DeletePending(r)
    \/ UpdateUser(r)
    \/ InsertSession(r)
    \/ RetryInsert(r)

NextSession ==
    \/ Arrive(SessionRequests)
    \/ \E r \in Slots : FirstPassSteps(r) \/ RedeemSteps(r)
    \/ \E d \in SessionTicks : Tick(d)

SpecSession == InitSession /\ [][NextSession]_vars

\* A request arrives while others are in flight; it takes the lowest free
\* invocation slot.
ArriveAny(requests) ==
    \E r \in Slots, q \in requests :
        /\ \A s \in Slots : s < r => pc[s] # "idle"
        /\ Start(r, q)
        /\ UNCHANGED admitted

\* SpecRace: one verified account and one device whose requests overlap:
\* first passes and second passes for the same (email, fingerprint) run
\* concurrently, each await of the handler being a point of interleaving.
InitRace ==
    /\ InitCommon
    /\ users = {NormalUser("alice@x")}
    /\ requestsLeft = MaxRaceRequests
    /\ ticksLeft = 0
    /\ faultsLeft = MaxRaceFaults

RaceRequests ==
    {Request("alice@x", PwStrong, FALSE, "captcha-token", "F1", ""),
     Request("alice@x", PwStrong, FALSE, "", "F1", "100000")}

NextRace ==
    \/ ArriveAny(RaceRequests)
    \/ \E r \in Slots : FirstPassSteps(r) \/ RedeemSteps(r)

SpecRace == InitRace /\ [][NextRace]_vars

\* SpecFingerprint: getDeviceFingerprint called by overlapping requests of
\* one account, with either set of headers and with or without a
\* fingerprint of the client; the requests carry no CAPTCHA token and end
\* at the CAPTCHA check, after the fingerprint has been computed.
Headers == {HeaderSeed, "ua2|lang2|xff2"}

InitFingerprint ==
    /\ InitCommon
    /\ users = {NormalUser("alice@x")}
    /\ requestsLeft = MaxFingerprintRequests
    /\ ticksLeft = 0
    /\ faultsLeft = 0

FingerprintRequests ==
    {[Request("alice@x", PwStrong, FALSE, "", f, "") EXCEPT !.headers = h] :
        f \in {"", "F1", "F2"}, h \in Headers}

NextFingerprint ==
    \/ ArriveAny(FingerprintRequests)
    \/ \E r \in Slots :
          FetchUser(r) \/ VerifyPassword(r) \/ Captcha(r) \/ Delay(r) \/ Finish(r)

SpecFingerprint == InitFingerprint /\ [][NextFingerprint]_vars

\* SpecLive: any account, the requests of a login and a wrong password,
\* with store, mail and CAPTCHA failures and thrown exceptions; every
\* awaited call of an invocation eventually settles (weak fairness of the
\* invocation's steps).
InitLive ==
    /\ InitCommon
    /\ users \in Profiles("alice@x")
    /\ requestsLeft = MaxLiveRequests
    /\ ticksLeft = MaxLiveTicks
    /\ faultsLeft = MaxLiveFaults

LiveRequests ==
    {Request("alice@x", PwWeak, FALSE, "", "F1", ""),
     Request("alice@x", PwStrong, FALSE, "captcha-token", "F1", ""),
     Request("alice@x", PwStrong, TRUE, "", "F1", "100000")}

HandlerStep(r) == FirstPassSteps(r) \/ SecondPassSteps(r)

NextLive ==
    \/ Arrive(LiveRequests)
    \/ \E r \in Slots : HandlerStep(r) \/ Throw(r)
    \/ \E d \in OtpTicks : Tick(d)

SpecLive ==
    InitLive /\ [][NextLive]_vars /\ \A r \in Slots : WF_vars(HandlerStep(r))

\* SpecLimiter: a caller of src/api/rateLimit.js with an ip, another ip or
\* none, one call after the other; the clock advances by 5 or by 12 minutes,
\* and the store may return an error or throw.
LimiterIps == {"", "10.0.0.1", "10.0.0.2"}
LimiterTicks == {300, 720}

InitLimiter ==
    /\ InitCommon
    /\ users = {}
    /\ requestsLeft = MaxLimiterCalls
    /\ ticksLeft = MaxLimiterTicks
    /\ faultsLeft = MaxLimiterFaults

NextLimiter ==
    \/ \E ip \in LimiterIps : ApiCheckCall(1, ip) \/ ApiLogCall(1, ip)
    \/ \E c \in Slots : ApiCheckSelect(c) \/ ApiLogInsert(c) \/ ApiReturn(c)
    \/ \E d \in LimiterTicks : Tick(d)

SpecLimiter == InitLimiter /\ [][NextLimiter]_vars


\* SpecAttempts: overlapping requests of one client that fail: a wrong
\* password, an unknown account, a missing CAPTCHA token or a failing user
\* lookup, each await of the handler being a point of interleaving.
InitAttempts ==
    /\ InitCommon
    /\ users \in {{NormalUser("alice@x")}, {}}
    /\ requestsLeft = MaxAttemptRequests
    /\ ticksLeft = MaxAttemptTicks
    /\ faultsLeft = MaxAttemptFaults

AttemptRequests ==
    {Request("alice@x", p, FALSE, "", "F1", "") : p \in Passwords}

NextAttempts ==
    \/ ArriveAny(AttemptRequests)
    \/ \E r \in Slots :
          FetchUser(r) \/ VerifyPassword(r) \/ Captcha(r) \/ Delay(r) \/ Finish(r)
    \/ \E d \in RateTicks : Tick(d)

SpecAttempts == InitAttempts /\ [][NextAttempts]_vars


\* SpecCookie: a verified account logs in (the session insert may fail on
\* the foreign key and be retried without user_id), then presents session
\* cookies to me.js and to the upload handler: the issued token, the token
\* with one segment altered, the token followed by '=' and more, or none.
CookieTicks == {86401}

InitCookie ==
    /\ InitCommon
    /\ users = {NormalUser("alice@x")}
    /\ requestsLeft = MaxCookieRequests
    /\ ticksLeft = MaxCookieTicks
    /\ faultsLeft = MaxCookieFaults

CookieLoginRequests ==
    {Request("alice@x", PwStrong, FALSE, "captcha-token", "F1", ""),
     Request("alice@x", PwStrong, FALSE, "", "F1", "100000")}

\* A token with one of its three segments altered.
Altered(token) ==
    {[token EXCEPT !.iv = @ + 100], [token EXCEPT !.tag = @ + 100],
     [token EXCEPT !.encrypted = @ + 100]}

IssuedTokens == {generateEncryptedToken(1)}

Cookies ==
    {NoCookieHeader}
    \cup {CookieValue(t, tail) : t \in IssuedTokens, tail \in {"", "=x"}}
    \cup {CookieValue(t, "") : t \in UNION {Altered(i) : i \in IssuedTokens}}

SessionRequestsOf(handler, method) ==
    {[handler |-> handler, method |-> method, cookie |-> c] : c \in Cookies}

CookieRequests ==
    SessionRequestsOf("me", "GET") \cup SessionRequestsOf("upload", "POST")
    \cup {[handler |-> "me", method |-> "POST", cookie |-> NoCookieHeader],
          [handler |-> "upload", method |-> "GET", cookie |-> NoCookieHeader]}

AllQuiet == AllIdle /\ \A m \in Slots : me[m].pc = "idle"

\* One request at a time, to the login handler or to a cookie handler.
LoginArrives == AllQuiet /\ Arrive(CookieLoginRequests)
CookieArrives == \E q \in CookieRequests : AllQuiet /\ MeStart(1, q)

NextCookie ==
    \/ LoginArrives
    \/ \E r \in Slots : FirstPassSteps(r) \/ SecondPassSteps(r)
    \/ CookieArrives
    \/ \E m \in Slots :
          \/ MeSelectSession(m) \/ MeUserById(m) \/ MeUserByEmail(m)
          \/ MeFixSession(m) \/ UploadUser(m) \/ MeThrow(m) \/ MeFinish(m)
    \/ \E d \in CookieTicks : Tick(d)

SpecCookie == InitCookie /\ [][NextCookie]_vars


\* SpecMedia: two verified accounts, each with a video, and a session of the
\* first as the login handler issued it at time 0 (with user_id, or without
\* it after the retried insert). Requests with that session's cookie, or
\* with none, come one at a time to me, like-video, upload-video and
\* view-videos; between two requests the clock may pass the session's expiry.
MaxMediaRequests == 3
MaxMediaTicks == 1
MaxMediaFaults == 1

MediaTicks == {86401}

\* The session row of lines 395-408, issued at time t for the account.
IssuedSession(n, email, user_id, t) ==
    [user_id |-> user_id, user_email |-> email,
     session_token |-> generateEncryptedToken(n),
     expires_at |-> t + LifetimeSeconds(ExpiresInDays(FALSE)),
     verified |-> TRUE,
     context |-> [ip |-> "1.1.1.1", user_agent |-> "ua", timestamp |-> t]]

MediaSessions ==
    {IssuedSession(1, "alice@x", id, 0) : id \in {UserId("alice@x"), ""}}

MediaVideos == {VideoRow("v1", UserId("alice@x")), VideoRow("v2", UserId("bob@x"))}

MediaCookies == {NoCookieHeader, CookieValue(generateEncryptedToken(1), "")}

MediaRequest(handler, method, cookie, videoId, action, success) ==
    [handler |-> handler, method |-> method, cookie |-> cookie,
     videoId |-> videoId, action |-> action, success |-> success]

MediaRequests ==
    {MediaRequest("like-video", "POST", c, v, a, FALSE) :
        c \in MediaCookies, v \in {"v2"}, a \in {"like", "unlike"}}
    \cup {MediaRequest("upload-video", "POST", c, v, "complete", ok) :
        c \in MediaCookies, v \in {"v1", "v2"}, ok \in BOOLEAN}
    \cup {MediaRequest("view-videos", "POST", c, "v2", "comment", FALSE) :
        c \in MediaCookies}

MediaMeRequests ==
    {[handler |-> "me", method |-> "GET", cookie |-> c] : c \in MediaCookies}

InitMedia ==
    /\ InitHandlers
    /\ users = {NormalUser("alice@x"), NormalUser("bob@x")}
    /\ \E x \in MediaSessions : sessions = {x}
    /\ uuidSeq = 1
    /\ videos = MediaVideos
    /\ likes = {}
    /\ comments = {}
    /\ requestsLeft = MaxMediaRequests
    /\ ticksLeft = MaxMediaTicks
    /\ faultsLeft = MaxMediaFaults

MediaQuiet == AllQuiet /\ \A m \in Slots : media[m].pc = "idle"

MediaArrives == \E q \in MediaRequests : MediaQuiet /\ MediaStart(1, q)
MediaMeArrives == \E q \in MediaMeRequests : MediaQuiet /\ MeStart(1, q)
TickQuiet(ticks) == \E d \in ticks : MediaQuiet /\ Tick(d)

LikeSteps(m) ==
    \/ MediaSelectSession(m) \/ MediaDeleteSession(m) \/ MediaUser(m)
    \/ LikeVideo(m) \/ LikeCheck(m) \/ LikeInsert(m) \/ LikeDelete(m)
    \/ LikeTouch(m) \/ MediaFinish(m)

UploadSteps(m) ==
    \/ UploadDeleteVideo(m) \/ UploadGetVideo(m) \/ UploadUpdateVideo(m)
    \/ UploadUpdateCount(m)

CommentSteps(m) == CommentVideo(m) \/ CommentInsert(m)

NextMedia ==
    \/ MediaArrives
    \/ MediaMeArrives
    \/ \E m \in Slots :
          \/ LikeSteps(m) \/ UploadSteps(m) \/ CommentSteps(m)
          \/ MeSelectSession(m) \/ MeUserById(m) \/ MeUserByEmail(m)
          \/ MeFixSession(m) \/ MeThrow(m) \/ MeFinish(m)
    \/ TickQuiet(MediaTicks)

SpecMedia == InitMedia /\ [][NextMedia]_vars

\* SpecLikes: the first account's session, and like and unlike requests for
\* one video with that cookie, in flight together.
MaxLikeRequests == 3
MaxLikeFaults == 1

LikeRequests ==
    {MediaRequest("like-video", "POST", CookieValue(generateEncryptedToken(1), ""),
                  "v2", a, FALSE) : a \in {"like", "unlike"}}

InitLikes ==
    /\ InitHandlers
    /\ users = {NormalUser("alice@x"), NormalUser("bob@x")}
    /\ sessions = {IssuedSession(1, "alice@x", UserId("alice@x"), 0)}
    /\ uuidSeq = 1
    /\ videos = MediaVideos
    /\ likes = {}
    /\ comments = {}
    /\ requestsLeft = MaxLikeRequests
    /\ ticksLeft = 0
    /\ faultsLeft = MaxLikeFaults

LikeArrives == \E m \in Slots, q \in LikeRequests : MediaStart(m, q)

NextLikes ==
    \/ LikeArrives
    \/ \E m \in Slots :
          \/ MediaSelectSession(m) \/ MediaUser(m) \/ LikeVideo(m)
          \/ LikeCheck(m) \/ LikeInsert(m) \/ LikeDelete(m) \/ LikeTouch(m)
          \/ MediaFinish(m)

SpecLikes == InitLikes /\ [][NextLikes]_vars


\* SpecRollback: one verified account and a client whose first passes fail
\* at any step (wrong password, CAPTCHA, the upsert of the code, the mail),
\* over more than one window.
InitRollback ==
    /\ InitCommon
    /\ users = {NormalUser("alice@x")}
    /\ requestsLeft = MaxRollbackRequests
    /\ ticksLeft = MaxRollbackTicks
    /\ faultsLeft = MaxRollbackFaults

NextRollback ==
    \/ Arrive(RateRequests)
    \/ \E r \in Slots : FirstPassSteps(r)
    \/ \E d \in RateTicks : Tick(d)

SpecRollback == InitRollback /\ [][NextRollback]_vars


\* SpecCaptcha: one verified account; the first pass with a CAPTCHA token,
\* and the second pass with either code, sent with and without a
\* captcha_token.
InitCaptcha ==
    /\ InitCommon
    /\ users = {NormalUser("alice@x")}
    /\ requestsLeft = MaxCaptchaRequests
    /\ ticksLeft = MaxCaptchaTicks
    /\ faultsLeft = MaxCaptchaFaults

CaptchaRequests ==
    {Request("alice@x", PwStrong, FALSE, "captcha-token", "F1", "")}
    \cup {Request("alice@x", PwStrong, FALSE, c, "F1", v) :
              c \in {"", "captcha-token"}, v \in Codes}

NextCaptcha ==
    \/ Arrive(CaptchaRequests)
    \/ \E r \in Slots : FirstPassSteps(r) \/ SecondPassSteps(r)
    \/ \E d \in OtpTicks : Tick(d)

SpecCaptcha == InitCaptcha /\ [][NextCaptcha]_vars


\* SpecGuess: one verified account and a client that receives a code and
\* then submits codes, right or wrong, one request after the other.
InitGuess ==
    /\ InitCommon
    /\ users = {NormalUser("alice@x")}
    /\ requestsLeft = MaxGuessRequests
    /\ ticksLeft = MaxGuessTicks
    /\ faultsLeft = MaxGuessFaults

GuessRequests ==
    {Request("alice@x", PwStrong, FALSE, "captcha-token", "F1", "")}
    \cup {Request("alice@x", PwStrong, FALSE, "", "F1", v) : v \in Codes}

NextGuess ==
    \/ Arrive(GuessRequests)
    \/ \E r \in Slots : FirstPassSteps(r) \/ SecondPassSteps(r)
    \/ \E d \in OtpTicks : Tick(d)

SpecGuess == InitGuess /\ [][NextGuess]_vars


\* SpecPolicy: accounts of every status whose stored password fails the
\* strength policy, and one whose password passes it; requests with either
\* password, on the first pass and with a code.
PolicyProfiles(email) ==
    { {UserRow(email, "true", FALSE, "", FALSE, bcryptHash(PwWeak), EmptyHash)},
      {UserRow(email, "true", TRUE, "spam", FALSE, bcryptHash(PwWeak), EmptyHash)},
      {UserRow(email, "true", FALSE, "", TRUE, bcryptHash(PwWeak), EmptyHash)},
      {UserRow(email, "false", FALSE, "", FALSE, bcryptHash(PwWeak), EmptyHash)},
      {NormalUser(email)} }

InitPolicy ==
    /\ InitCommon
    /\ users \in PolicyProfiles("alice@x")
    /\ requestsLeft = MaxPolicyRequests
    /\ ticksLeft = MaxPolicyTicks
    /\ faultsLeft = MaxPolicyFaults

PolicyRequests ==
    {Request("alice@x", p, FALSE, "captcha-token", "F1", v) :
        p \in Passwords, v \in {"", "100000"}}

NextPolicy ==
    \/ Arrive(PolicyRequests)
    \/ \E r \in Slots : FirstPassSteps(r) \/ SecondPassSteps(r)
    \/ \E d \in OtpTicks : Tick(d)

SpecPolicy == InitPolicy /\ [][NextPolicy]_vars


\* SpecShapes: a verified account or none, and requests of every shape the
\* handler tells apart before the rate-limit check: another method, the
\* preflight, the google flag, and the two passes with either password.
InitShapes ==
    /\ InitCommon
    /\ users \in {{NormalUser("alice@x")}, {}}
    /\ requestsLeft = MaxShapeRequests
    /\ ticksLeft = MaxShapeTicks
    /\ faultsLeft = MaxShapeFaults

ShapeRequests ==
    LET plain == {Request("alice@x", p, FALSE, "captcha-token", "F1", v) :
                     p \in Passwords, v \in {"", "100000"}}
    IN  plain
        \cup {[q EXCEPT !.google = TRUE] : q \in plain}
        \cup {[q EXCEPT !.method = m] :
                 q \in {Request("alice@x", PwStrong, FALSE, "captcha-token", "F1", "")},
                 m \in {"OPTIONS", "GET"}}

NextShapes ==
    \/ Arrive(ShapeRequests)
    \/ \E r \in Slots : FirstPassSteps(r) \/ SecondPassSteps(r)
    \/ \E d \in OtpTicks : Tick(d)

SpecShapes == InitShapes /\ [][NextShapes]_vars


\* SpecAdmit: a verified or a suspended account and a client whose requests
\* end in every way that needs no failure of a store: the first pass, a
\* refused code, a login, a suspension, a wrong password. No store call
\* fails; the clock advances by a whole window.
AdmitTicks == {900}

InitAdmit ==
    /\ InitCommon
    /\ users \in { {NormalUser("alice@x")},
                   {UserRow("alice@x", "true", TRUE, "spam", FALSE,
                            bcryptHash(PwStrong), EmptyHash)} }
    /\ requestsLeft = MaxAdmitRequests
    /\ ticksLeft = MaxAdmitTicks
    /\ faultsLeft = 0

AdmitRequests ==
    {Request("alice@x", PwStrong, FALSE, "captcha-token", "F1", v) :
        v \in {""} \cup Codes}
    \cup {Request("alice@x", PwWeak, FALSE, "", "F1", "")}

NextAdmit ==
    \/ ArriveCounted(AdmitRequests)
    \/ \E r \in Slots :
          \/ FirstPassSteps(r)
          \/ SelectPending(r) \/ DeleteExpired(r) \/ DeletePending(r)
          \/ UpdateUser(r) \/ InsertSession(r)
    \/ \E d \in AdmitTicks : Tick(d)

SpecAdmit == InitAdmit /\ [][NextAdmit]_vars


\* ------------------------------------------------------------------ claims
Count(event, tr) == Cardinality({i \in DOMAIN tr : tr[i] = event})
Has(event, tr) == \E i \in DOMAIN tr : tr[i] = event

Answered(r) == pc[r] = "done"
FirstPass(r) == pc[r] # "idle" /\ ~Truthy(req[r].verification_code)
SecondPass(r) == pc[r] # "idle" /\ Truthy(req[r].verification_code)

\* The request got past the user lookup: credential verification is due.
ReachedVerification(r) == Has("users.select", trace[r]) /\ pc[r] # "verify"

StoredUsers(email) == {u \in users : u.email = email}

\* The stored hash that the request's password matches, if any.
CorrectPassword(r) ==
    \E u \in StoredUsers(req[r].email) :
        \/ u.encrypted_password = bcryptHash(req[r].password)
        \/ u.encrypted_password = EmptyHash /\ u.password = bcryptHash(req[r].password)

\* C1: a session row is inserted only by a request for that email whose
\* password matched, whose account passed the suspended, honeytoken,
\* verified and password-policy checks, and whose verification_code equals
\* the code of the unexpired pending row read for its (email, fingerprint);
\* a first-pass request inserts no session and sets no cookie.
C1_SessionOnlyAfterBothFactors ==
    /\ [][\A s \in sessions' \ sessions : \E r \in Slots :
            /\ pc[r] \in {"insertSession", "retryInsert"}
            /\ s.user_email = req[r].email
            /\ Truthy(req[r].verification_code)
            /\ CorrectPassword(r)
            /\ \E u \in loc[r].user :
                  /\ u.email = req[r].email
                  /\ ~u.suspended /\ ~u.is_honeytoken /\ u.verified # "false"
            /\ passwordStrongEnough(req[r].password)
            /\ \E p \in loc[r].pending :
                  /\ p.email = req[r].email
                  /\ p.fingerprint = loc[r].deviceFingerprint
                  /\ p.code = req[r].verification_code
                  /\ loc[r].checkedAt <= p.expires_at]_vars
    /\ [](\A r \in Slots : FirstPass(r) =>
            /\ ~Has("sessions.insert", trace[r])
            /\ resp[r].set_cookie = NoCookie)

C1_Witness ==
    \E r \in Slots :
        /\ Answered(r) /\ resp[r].status = 200
        /\ resp[r].set_cookie # NoCookie
        /\ \E s \in sessions : s.session_token = resp[r].set_cookie.token

\* C2: a pending row is created or overwritten only by a request whose
\* CAPTCHA verification returned true; with the token missing, a non-success
\* answer or a throwing call, verifyCaptcha is false, the request ends 403
\* and writes no pending row.
C2_PendingOnlyAfterCaptcha ==
    /\ [][pending_verifications' \ pending_verifications # {} =>
            \E r \in Slots :
                /\ pc[r] = "upsert"
                /\ Truthy(req[r].captcha_token)
                /\ loc[r].captchaOutcome = "success"
                /\ loc[r].captchaOk]_vars
    /\ [](\A r \in Slots :
            /\ FirstPass(r)
            /\ Has("verifyCaptcha", trace[r]) /\ pc[r] # "captcha"
            /\ ~Truthy(req[r].captcha_token)
                 \/ loc[r].captchaOutcome \in {"nonsuccess", "throw"}
            => /\ ~loc[r].captchaOk
               /\ pc[r] \in {"delay", "done"}
               /\ Answered(r) => resp[r].status = 403 /\ resp[r].error = ErrCaptcha
               /\ ~Has("pending.upsert", trace[r]))

C2_Witness ==
    \E r \in Slots :
        /\ Answered(r) /\ resp[r].status = 403
        /\ loc[r].captchaOutcome = "throw"
        /\ pending_verifications = {}

\* C8: every request that reaches credential verification performs
\* exactly one bcrypt comparison, whichever branch it takes.
C8_ExactlyOneCompare ==
    \A r \in Slots :
        ReachedVerification(r) => Count("bcrypt.compare", trace[r]) = 1

\* The three cases of C9, for a request that reached credential verification.
NoUserCase(r) == StoredUsers(req[r].email) = {}
WrongPasswordCase(r) == StoredUsers(req[r].email) # {} /\ ~CorrectPassword(r)
HoneytokenCase(r) ==
    /\ CorrectPassword(r)
    /\ \E u \in StoredUsers(req[r].email) : u.is_honeytoken
SuspendedCase(r) == \E u \in StoredUsers(req[r].email) : u.suspended

\* What the caller and the limiter see of an invalid-credentials answer.
GenericRejection(r) ==
    /\ resp[r].status = 401
    /\ resp[r].error = ErrInvalid
    /\ ~resp[r].success
    /\ resp[r].set_cookie = NoCookie
    /\ Count("logAttempt", trace[r]) = 1
    /\ Len(rateLimitCache[Key(r)]) = Len(Recent(loc[r].attempts, loc[r].rlNow)) + 2
    /\ Has("randomDelay", trace[r])

\* C9 as stated: no user, wrong password and honeytoken user with the
\* correct password all end in the same 401 answer, the same number of
\* recorded attempts and the randomized delay.
C9_Indistinguishable ==
    \A r \in Slots :
        /\ Answered(r) /\ ReachedVerification(r)
        /\ NoUserCase(r) \/ WrongPasswordCase(r) \/ HoneytokenCase(r)
        => GenericRejection(r)

\* C9 amended: no user, wrong password and a honeytoken user that is not
\* suspended, with the correct password, all end in the same 401 answer,
\* the same number of recorded attempts and the randomized delay.
C9_IndistinguishableUnlessSuspended ==
    \A r \in Slots :
        /\ Answered(r) /\ ReachedVerification(r)
        /\ \/ NoUserCase(r)
           \/ WrongPasswordCase(r)
           \/ HoneytokenCase(r) /\ ~SuspendedCase(r)
        => GenericRejection(r)

C9_Witness ==
    \E r \in Slots :
        /\ Answered(r) /\ ReachedVerification(r)
        /\ HoneytokenCase(r) /\ ~SuspendedCase(r)
        /\ GenericRejection(r)

\* The attempts of a history that lie inside the window ending at time t.
InWindow(attempts, t) == SelectSeq(attempts, LAMBDA time : t - time < windowMs)

\* The failed attempts of the request's key inside the window ending at the
\* request's rate-limit check.
RecentFailures(r) == InWindow(failedAttempts[Key(r)], loc[r].rlNow)

\* C4: when 5 failed attempts of the request's key lie within the 15
\* minutes before it, the request is answered 429 with nothing done but
\* the rate-limit check, whatever its credentials.
C4_SixthAttemptRejected ==
    \A r \in Slots :
        pc[r] # "idle" /\ Len(RecentFailures(r)) >= 5
        => /\ ~loc[r].allowed
           /\ Answered(r)
           /\ resp[r].status = 429 /\ resp[r].error = ErrTooMany
           /\ trace[r] = <<"checkRateLimit">>

C4_Witness ==
    \E r \in Slots :
        /\ Answered(r) /\ resp[r].status = 429
        /\ Len(RecentFailures(r)) = 5
        /\ CorrectPassword(r)

\* Every attempt the key had recorded when the request arrived is at least
\* one window old.
AllDecayed(r) ==
    \A i \in DOMAIN loc[r].attempts :
        loc[r].rlNow - loc[r].attempts[i] >= windowMs

\* C5: a request arriving 15 minutes or more after the most recent recorded
\* attempt of its key is allowed by the rate limiter, however many attempts
\* the key had recorded.
C5_WindowDecays ==
    \A r \in Slots :
        pc[r] # "idle" /\ Has("checkRateLimit", trace[r]) /\ AllDecayed(r)
        => loc[r].allowed /\ resp[r].status # 429

C5_Witness ==
    \E r \in Slots :
        /\ pc[r] # "idle" /\ Has("checkRateLimit", trace[r])
        /\ Len(loc[r].attempts) >= 5 /\ AllDecayed(r)
        /\ loc[r].allowed

\* The request left the in-window history of its key as it found it.
HistoryUntouched(r) ==
    InWindow(rateLimitCache[Key(r)], loc[r].rlNow)
        = InWindow(loc[r].attempts, loc[r].rlNow)

\* C6: a request that passes the rate-limit check and never calls
\* logAttempt leaves the attempt history of its key unchanged.
C6_CheckDoesNotRecord ==
    \A r \in Slots :
        Answered(r) /\ loc[r].allowed /\ ~Has("logAttempt", trace[r])
        => HistoryUntouched(r)

\* C7: an admitted request for a suspended user with the correct password
\* is answered 403 with the suspension reason and leaves the attempt
\* history of its key unchanged.
C7_SuspendedLeavesNoRecord ==
    \A r \in Slots :
        Answered(r) /\ loc[r].allowed /\ SuspendedCase(r) /\ CorrectPassword(r)
        => /\ resp[r].status = 403
           /\ \E u \in StoredUsers(req[r].email) :
                 resp[r].error = SuspensionError(u)
           /\ HistoryUntouched(r)

\* The account of the request is verified, not suspended, not a honeytoken,
\* and the request's password is its password and meets the policy.
GoodLogin(r) ==
    /\ CorrectPassword(r)
    /\ passwordStrongEnough(req[r].password)
    /\ \A u \in StoredUsers(req[r].email) :
          u.verified = "true" /\ ~u.suspended /\ ~u.is_honeytoken

\* The request follows a first pass that issued a code and submits that
\* code with the same email and client-supplied fingerprint.
FollowsIssue(r) ==
    /\ prev.kind = "issued"
    /\ Truthy(prev.fingerprint)
    /\ req[r].email = prev.email
    /\ req[r].fingerprint = prev.fingerprint
    /\ req[r].verification_code = prev.code

\* The full-login answer: 200, the session cookie, one session row for it.
LoggedIn(r) ==
    /\ resp[r].status = 200 /\ resp[r].success
    /\ resp[r].set_cookie # NoCookie
    /\ Count("sessions.insert", trace[r]) = 1
    /\ Cardinality({s \in sessions :
                      s.session_token = resp[r].set_cookie.token}) = 1

\* C3: for a good login, an admitted first pass with a valid CAPTCHA and a
\* client-supplied fingerprint is answered 200 verification_required, and
\* the following request with the same fingerprint and the issued code,
\* answered before the code expires with no store operation failing, is
\* answered 200 with the session cookie and persists exactly one session.
C3_EndToEnd ==
    \A r \in Slots :
        /\ Answered(r) /\ GoodLogin(r) /\ ~loc[r].storeFailed
        => /\ /\ FirstPass(r) /\ loc[r].allowed
              /\ Truthy(req[r].fingerprint)
              /\ loc[r].captchaOutcome = "success"
              => resp[r].status = 200 /\ resp[r].verification_required
           /\ /\ FollowsIssue(r)
              /\ resp[r].at < prev.expires_at
              => LoggedIn(r)

\* C3 for a second request that the rate limiter admits.
C3_EndToEndWhenAdmitted ==
    \A r \in Slots :
        /\ Answered(r) /\ GoodLogin(r) /\ ~loc[r].storeFailed
        /\ FollowsIssue(r) /\ loc[r].allowed
        /\ resp[r].at < prev.expires_at
        => LoggedIn(r)

\* The request repeats the email, fingerprint and code of the second pass
\* that has just succeeded.
FollowsRedeem(r) ==
    /\ prev.kind = "redeemed"
    /\ req[r].email = prev.email
    /\ req[r].fingerprint = prev.fingerprint
    /\ req[r].verification_code = prev.code

\* C10: a second pass that repeats the email, fingerprint and code of a
\* second pass that succeeded finds no pending row, is answered 401
\* 'Invalid verification code' and creates no session.
C10_CodeAcceptedOnce ==
    \A r \in Slots :
        /\ Answered(r) /\ FollowsRedeem(r)
        /\ Has("pending.select", trace[r])
        => /\ loc[r].pending = {}
           /\ resp[r].status = 401 /\ resp[r].error = ErrCode
           /\ ~Has("sessions.insert", trace[r])

\* The request submitted the code of the pending row it read, and the row
\* had expired when it was checked.
SubmittedExpiredCode(r) ==
    /\ SecondPass(r) /\ Has("pending.select", trace[r])
    /\ \E p \in loc[r].pending :
          p.code = req[r].verification_code /\ p.expires_at < loc[r].checkedAt

\* No pending row is stored for the (email, fingerprint) of the request.
LookupFindsNothing(r) ==
    SelectPendingRows(pending_verifications, req[r].email,
                      loc[r].deviceFingerprint) = {}

\* C12: a second pass that submits the issued code after its expires_at is
\* answered 401 'expired', creates no session, and leaves no pending row
\* for its (email, fingerprint).
C12_ExpiredCodeRemoved ==
    \A r \in Slots :
        Answered(r) /\ SubmittedExpiredCode(r)
        => /\ resp[r].status = 401 /\ resp[r].error = ErrExpired
           /\ ~Has("sessions.insert", trace[r])
           /\ resp[r].set_cookie = NoCookie
           /\ LookupFindsNothing(r)

\* C12 for a request whose delete of the expired row took effect.
C12_ExpiredCodeRemovedWhenDeleted ==
    \A r \in Slots :
        Answered(r) /\ SubmittedExpiredCode(r) /\ ~loc[r].deleteFailed
        => /\ resp[r].status = 401 /\ resp[r].error = ErrExpired
           /\ ~Has("sessions.insert", trace[r])
           /\ resp[r].set_cookie = NoCookie
           /\ LookupFindsNothing(r)

\* The request was answered with the full login: 200 and the session cookie.
FullLogin(r) ==
    Answered(r) /\ resp[r].status = 200 /\ resp[r].set_cookie # NoCookie

\* The session row persisted for the cookie of the request.
SessionOf(r) == {s \in sessions : s.session_token = resp[r].set_cookie.token}

\* C16: for every successful login the persisted session expires 1 day
\* after its issue time without remember_me and 90 days after it with
\* remember_me; the cookie Max-Age is that lifetime in seconds (86400 or
\* 7776000) and session_expires in the body is the persisted expiry.
C16_SessionLifetime ==
    \A r \in Slots :
        FullLogin(r) =>
            LET lifetime == IF req[r].remember_me THEN 7776000 ELSE 86400 IN
            /\ SessionOf(r) # {}
            /\ \A s \in SessionOf(r) :
                  /\ s.expires_at = s.context.timestamp + lifetime
                  /\ resp[r].session_expires = s.expires_at
            /\ resp[r].set_cookie.max_age = lifetime

C16_Witness ==
    \E r \in Slots :
        /\ FullLogin(r) /\ req[r].remember_me
        /\ \E s \in SessionOf(r) :
              s.context.timestamp > 0 /\ s.expires_at = s.context.timestamp + 7776000

\* The session inserts of a request, in order: done, failed on the foreign
\* key, or failed otherwise.
InsertEvents(r) ==
    SelectSeq(trace[r], LAMBDA e : e \in {"sessions.insert",
                  "sessions.insert:foreign key", "sessions.insert:error"})

\* C17: a request makes at most two session inserts; the second follows
\* only a first that failed on the foreign key, and is sent without
\* user_id and with user_email; a failure of any other kind, or of the
\* retry, ends the request with 500 and no Set-Cookie.
C17_RetryOnceOnForeignKey ==
    \A r \in Slots :
        pc[r] # "idle" =>
            LET inserts == InsertEvents(r) IN
            /\ Len(inserts) <= 2
            /\ Len(inserts) = 2 =>
                  /\ inserts[1] = "sessions.insert:foreign key"
                  /\ \A d \in loc[r].sessionData :
                        d.user_id = "" /\ d.user_email = req[r].email
                  /\ FullLogin(r) =>
                        \A s \in SessionOf(r) :
                            s.user_id = "" /\ s.user_email = req[r].email
            /\ Len(inserts) = 1 /\ inserts[1] = "sessions.insert:foreign key"
                  => pc[r] = "retryInsert"
            /\ \/ Has("sessions.insert:error", trace[r])
               \/ Len(inserts) = 2 /\ inserts[2] # "sessions.insert"
               => /\ Answered(r) /\ resp[r].status = 500
                  /\ resp[r].set_cookie = NoCookie
                  /\ ~Has("Set-Cookie", trace[r])
                  /\ \A d \in loc[r].sessionData :
                        \A s \in sessions : s.session_token # d.session_token

C17_Witness ==
    \E r \in Slots :
        /\ Answered(r) /\ resp[r].status = 500
        /\ InsertEvents(r) = <<"sessions.insert:foreign key", "sessions.insert:error">>

\* A second pass that carries no fingerprint of the client.
NoClientFingerprint(r) == SecondPass(r) /\ ~Truthy(req[r].fingerprint)

\* C15: a second pass without a client-supplied fingerprint never finds a
\* pending row, whatever code it submits: it is answered 401 'Invalid
\* verification code' when the lookup succeeds, and inserts no session.
C15_FallbackNeverMatches ==
    \A r \in Slots :
        NoClientFingerprint(r) =>
            /\ loc[r].pending = {}
            /\ ~Has("sessions.insert", trace[r])
            /\ resp[r].set_cookie = NoCookie
            /\ Has("pending.select", trace[r]) =>
                  Answered(r) /\ resp[r].status = 401 /\ resp[r].error = ErrCode

C15_Witness ==
    \E r \in Slots :
        /\ NoClientFingerprint(r) /\ Answered(r)
        /\ resp[r].status = 401 /\ resp[r].error = ErrCode
        /\ \E p \in pending_verifications :
              /\ p.email = req[r].email /\ p.code = req[r].verification_code
              /\ p.fingerprint.sha256 = req[r].headers
              /\ p.expires_at > now

\* C18: a request that is answered otherwise than with the full login (a
\* non-200 answer, or the first-pass 200) leaves the user row as it read it.
C18_UserUnchangedUnlessLogin ==
    \A r \in Slots :
        Answered(r) /\ ~FullLogin(r) /\ Has("users.select", trace[r])
        => StoredUsers(req[r].email) = loc[r].user

\* C18 for the requests that never reach the user update of line 378.
C18_UserUnchangedBeforeUpdate ==
    \A r \in Slots :
        /\ Answered(r) /\ ~FullLogin(r) /\ Has("users.select", trace[r])
        /\ ~Has("users.update", trace[r])
        => StoredUsers(req[r].email) = loc[r].user

\* The last two events of the request, when it has that many.
LastTwo(tr) == IF Len(tr) < 2 THEN <<>> ELSE <<tr[Len(tr) - 1], tr[Len(tr)]>>

\* C19: a request answered 401 'Invalid email or password' has recorded an
\* attempt and then completed the randomized delay, in that order, just
\* before the answer; a request answered 200 has not run the delay.
C19_DelayOnFailureOnly ==
    \A r \in Slots :
        Answered(r) =>
            /\ resp[r].status = 401 /\ resp[r].error = ErrInvalid
                  => /\ LastTwo(trace[r]) = <<"logAttempt", "randomDelay">>
                     /\ Count("randomDelay", trace[r]) = 1
            /\ resp[r].status = 200 => ~Has("randomDelay", trace[r])

C19_Witness ==
    \E r \in Slots :
        /\ Answered(r) /\ resp[r].status = 401 /\ resp[r].error = ErrInvalid
        /\ LastTwo(trace[r]) = <<"logAttempt", "randomDelay">>
        /\ WrongPasswordCase(r)

\* Two second-pass requests in flight at once with the same email,
\* fingerprint and code.
SameCodeTogether(r1, r2) ==
    /\ r1 # r2 /\ SecondPass(r1) /\ SecondPass(r2)
    /\ req[r1].email = req[r2].email
    /\ loc[r1].deviceFingerprint = loc[r2].deviceFingerprint
    /\ req[r1].verification_code = req[r2].verification_code

\* C11: of two simultaneous second-pass requests carrying the same code for
\* the same (email, fingerprint), with every delete of the pending row
\* taking effect, at most one inserts a session.
C11_OneSessionPerCode ==
    \A r1, r2 \in Slots :
        /\ SameCodeTogether(r1, r2)
        /\ ~loc[r1].deleteFailed /\ ~loc[r2].deleteFailed
        => ~(Has("sessions.insert", trace[r1]) /\ Has("sessions.insert", trace[r2]))

\* The pending rows stored for a key.
PendingFor(rows, email, fingerprint) ==
    {p \in rows : p.email = email /\ p.fingerprint = fingerprint}

\* C13: the store holds at most one pending row per (email, fingerprint);
\* a row appears or changes only by the upsert of a first pass, which
\* leaves its own code as the single row of the key; and a second pass
\* passes the code check only with the code of the row stored at that time.
C13_OneLiveCodePerKey ==
    /\ [](\A p1, p2 \in pending_verifications :
             p1.email = p2.email /\ p1.fingerprint = p2.fingerprint => p1 = p2)
    /\ [][\A p \in pending_verifications' \ pending_verifications :
             \E r \in Slots :
                 /\ pc[r] = "upsert" /\ pc'[r] = "email"
                 /\ p.code = loc[r].code /\ p.email = req[r].email
                 /\ p.fingerprint = loc[r].deviceFingerprint
                 /\ PendingFor(pending_verifications', p.email, p.fingerprint) = {p}]_vars
    /\ [][\A r \in Slots :
             pc[r] = "selectPending" /\ pc'[r] \in {"deletePending", "deleteExpired"}
             => \E p \in pending_verifications :
                   /\ PendingFor(pending_verifications, req[r].email,
                                 loc[r].deviceFingerprint) = {p}
                   /\ p.code = req[r].verification_code]_vars

\* Two first passes for the same key have both written, with different
\* codes, and one row is stored.
C13_Witness ==
    \E r1, r2 \in Slots :
        /\ r1 # r2
        /\ Has("pending.upsert", trace[r1]) /\ Has("pending.upsert", trace[r2])
        /\ req[r1].email = req[r2].email
        /\ loc[r1].deviceFingerprint = loc[r2].deviceFingerprint
        /\ loc[r1].code # loc[r2].code
        /\ Cardinality(pending_verifications) = 1

\* The request has computed its device fingerprint (line 276).
FingerprintComputed(r) == FirstPass(r) /\ Has("verifyCaptcha", trace[r])

\* C14: two calls of getDeviceFingerprint with the same non-empty client
\* value give equal results whatever the headers; two calls without a
\* client value give different results, even with identical headers.
C14_FingerprintDeterminism ==
    \A r1, r2 \in Slots :
        r1 # r2 /\ FingerprintComputed(r1) /\ FingerprintComputed(r2)
        => /\ Truthy(req[r1].fingerprint) /\ req[r1].fingerprint = req[r2].fingerprint
                 => loc[r1].deviceFingerprint = loc[r2].deviceFingerprint
           /\ ~Truthy(req[r1].fingerprint) /\ ~Truthy(req[r2].fingerprint)
                 => loc[r1].deviceFingerprint # loc[r2].deviceFingerprint

\* Both cases at once are out of reach of two calls; the witness is the
\* fallback pair with identical headers.
C14_Witness ==
    \E r1, r2 \in Slots :
        /\ r1 # r2 /\ FingerprintComputed(r1) /\ FingerprintComputed(r2)
        /\ ~Truthy(req[r1].fingerprint) /\ ~Truthy(req[r2].fingerprint)
        /\ req[r1].headers = req[r2].headers
        /\ loc[r1].deviceFingerprint # loc[r2].deviceFingerprint

\* Same client value under different headers, equal results.
C14_SameClientValue ==
    \E r1, r2 \in Slots :
        /\ r1 # r2 /\ FingerprintComputed(r1) /\ FingerprintComputed(r2)
        /\ Truthy(req[r1].fingerprint) /\ req[r1].fingerprint = req[r2].fingerprint
        /\ req[r1].headers # req[r2].headers
        /\ loc[r1].deviceFingerprint = loc[r2].deviceFingerprint

\* The statuses the handler sends.
Statuses == {200, 400, 401, 403, 405, 429, 500}

\* C20: every request is eventually answered, whatever fails or throws on
\* the way; the answer is an explicit response, and once sent it is not
\* replaced.
C20_ExactlyOneResponse ==
    /\ \A r \in Slots : (pc[r] # "idle") ~> Answered(r)
    /\ [](\A r \in Slots :
            /\ Answered(r) => resp[r].status \in Statuses
            /\ pc[r] \notin {"idle", "done"} => resp[r] = NoResponse)
    /\ [][\A r \in Slots :
            Answered(r) => resp'[r] = resp[r] \/ pc'[r] = "idle"]_vars

C20_Witness ==
    \E r \in Slots :
        /\ Answered(r) /\ resp[r].status = 500 /\ resp[r].error = ErrInternal
        /\ Has("sessions.insert:foreign key", trace[r])

\* The account of the request has not completed email verification: the
\* flag is false or not set.
NotVerified(r) == \E u \in StoredUsers(req[r].email) : u.verified # "true"

\* The request has gone past the account checks of lines 243-274.
PastAccountChecks(r) ==
    \/ Has("verifyCaptcha", trace[r])
    \/ Has("pending.select", trace[r]) \/ Has("pending.select:error", trace[r])
    \/ pc[r] = "selectPending"

\* C21: a request with the correct password for a user whose verification
\* flag is false or not set is answered 403 'Please verify your email
\* address before logging in.', issues no code and creates no session.
C21_UnverifiedRejected ==
    \A r \in Slots :
        ReachedVerification(r) /\ CorrectPassword(r) /\ NotVerified(r)
        => /\ ~PastAccountChecks(r)
           /\ ~Has("pending.upsert", trace[r])
           /\ ~Has("sessions.insert", trace[r])
           /\ Answered(r) => resp[r].status = 403 /\ resp[r].error = ErrUnverified

\* C21 for the users whose flag is stored as false.
C21_FlagFalseRejected ==
    \A r \in Slots :
        /\ ReachedVerification(r) /\ CorrectPassword(r)
        /\ \E u \in StoredUsers(req[r].email) : u.verified = "false"
        => /\ ~PastAccountChecks(r)
           /\ ~Has("pending.upsert", trace[r])
           /\ ~Has("sessions.insert", trace[r])
           /\ Answered(r) => resp[r].status = 403 /\ resp[r].error = ErrUnverified

\* A user whose flag is not set logs in.
C21_FlagNotSetLogsIn ==
    \E r \in Slots :
        /\ FullLogin(r)
        /\ \E u \in StoredUsers(req[r].email) : u.verified = "null"

\* A call of checkRateLimit of src/api/rateLimit.js that has returned.
ApiChecked(c) == call[c].fn = "checkRateLimit" /\ call[c].pc = "returned"

\* C22: checkRateLimit of src/api/rateLimit.js returns false when the key
\* is empty and when the select returns an error or throws; it returns true
\* only after a successful select, with the count it read below the limit.
C22_FailClosed ==
    \A c \in Slots :
        ApiChecked(c) =>
            /\ ~Truthy(call[c].ip) => ~call[c].result /\ call[c].outcome = ""
            /\ call[c].outcome \in {"error", "throw"} => ~call[c].result
            /\ call[c].result =>
                  /\ Truthy(call[c].ip)
                  /\ call[c].outcome = "ok"
                  /\ call[c].count = Cardinality(AttemptsSince(login_attempts,
                                                    call[c].ip, call[c].since))
                  /\ call[c].count < 5

\* The select throws for an ip that has no attempt on record: denied.
C22_Witness ==
    \E c \in Slots :
        /\ ApiChecked(c) /\ call[c].outcome = "throw" /\ ~call[c].result
        /\ AttemptsSince(login_attempts, call[c].ip, call[c].since) = {}
        /\ login_attempts # {}

\* The limit itself: five attempts on record for the ip, denied.
C22_DeniedByCount ==
    \E c \in Slots :
        ApiChecked(c) /\ call[c].outcome = "ok" /\ call[c].count = 5 /\ ~call[c].result

\* The entries the invocation has pushed on the history of its key: one by
\* the rate-limit check that admitted it, one by each logAttempt.
Pushes(r) ==
    IF pc[r] = "idle" THEN 0
    ELSE (IF loc[r].allowed THEN 1 ELSE 0) + Count("logAttempt", trace[r])

\* Two requests in flight at once for the same IP+email key.
Together(r1, r2) ==
    /\ r1 # r2 /\ pc[r1] # "idle" /\ pc[r2] # "idle"
    /\ Key(r1) = Key(r2)

\* C23: every logAttempt appends its entry to the history as it stands,
\* keeping what any other request has written; and while two requests for
\* one key are in flight within one window, the history of the key holds
\* every entry either of them has pushed.
C23_BothCounted ==
    /\ [][\A r \in Slots :
            pc[r] # "idle" /\ pc'[r] # "idle"
            /\ Count("logAttempt", trace'[r]) = Count("logAttempt", trace[r]) + 1
            => rateLimitCache'[Key(r)] = Append(rateLimitCache[Key(r)], now)]_vars
    /\ [](\A r1, r2 \in Slots :
            /\ Together(r1, r2)
            /\ now - loc[r1].rlNow < windowMs /\ now - loc[r2].rlNow < windowMs
            => Len(InWindow(rateLimitCache[Key(r1)], now)) >= Pushes(r1) + Pushes(r2))

\* Two overlapping requests with a wrong password have both been answered
\* 401, the second admitted between the check and the logAttempt of the
\* first; the history holds the four entries they pushed.
C23_Witness ==
    \E r1, r2 \in Slots :
        /\ Together(r1, r2)
        /\ Answered(r1) /\ Answered(r2)
        /\ resp[r1].status = 401 /\ resp[r2].status = 401
        /\ WrongPasswordCase(r1) /\ WrongPasswordCase(r2)
        /\ Len(loc[r2].attempts) = 1
        /\ Len(rateLimitCache[Key(r1)]) = 4

\* C24 as stated: a session row, once inserted, keeps every field until it
\* is removed.
C24_SessionNeverMutated ==
    [][\A s \in sessions : \A t \in sessions' :
          t.session_token = s.session_token => t = s]_vars

\* C24 amended: a session row keeps its user_email, expires_at, verified
\* and context until it is removed; its user_id changes only when me.js,
\* presented with the session's token, has found the user by the session's
\* user_email, and then becomes the id of that user.
C24_OnlyUserIdRepaired ==
    [][\A s \in sessions : \A t \in sessions' :
          t.session_token = s.session_token =>
              /\ [t EXCEPT !.user_id = s.user_id] = s
              /\ t.user_id # s.user_id =>
                    \E m \in Slots :
                        /\ me[m].pc = "fixSession" /\ me[m].q.handler = "me"
                        /\ me[m].sessionToken = TokenText(s.session_token)
                        /\ \E u \in users :
                              u.email = s.user_email /\ t.user_id = u.id]_vars

\* The session of a login whose insert was retried without user_id has
\* been read by me.js, and now carries the id of the user.
C24_Witness ==
    \E m \in Slots :
        /\ me[m].pc = "done" /\ me[m].fixed /\ me[m].status = 200
        /\ \E old \in me[m].session : \E s \in sessions :
              /\ s.session_token = old.session_token
              /\ old.user_id = "" /\ s.user_id = "u1"
              /\ s = [old EXCEPT !.user_id = "u1"]

\* The cookie of the request is the text of no persisted session_token.
ForeignCookie(m) ==
    \A s \in sessions : TokenText(s.session_token) # me[m].q.cookie

\* The request was turned away: no session was accepted for it.
Unauthenticated(m) == me[m].status # 200 /\ me[m].session = {}

\* C25: a request whose session cookie differs from every persisted
\* session_token is rejected as unauthenticated, by each handler that
\* accepts the cookie.
C25_ExactMatchOnly ==
    \A m \in Slots :
        me[m].pc = "done" /\ ForeignCookie(m) => Unauthenticated(m)

\* C25 for src/api/me.js alone.
C25_MeExactMatchOnly ==
    \A m \in Slots :
        me[m].pc = "done" /\ me[m].q.handler = "me" /\ ForeignCookie(m)
        => Unauthenticated(m)

\* C25 for the cookies that are a token's text with one segment altered,
\* whichever handler receives them.
C25_AlteredSegmentRejected ==
    \A m \in Slots :
        /\ me[m].pc = "done" /\ ForeignCookie(m) /\ me[m].q.cookie.tail = ""
        => Unauthenticated(m)

\* The upload handler accepts a cookie that is no persisted token.
C25_UploadAcceptsLongerCookie ==
    \E m \in Slots :
        /\ me[m].pc = "done" /\ me[m].q.handler = "upload" /\ ForeignCookie(m)
        /\ me[m].status = 200 /\ me[m].q.cookie.tail = "=x"

IsPrefix(a, b) == Len(a) <= Len(b) /\ SubSeq(b, 1, Len(a)) = a

\* The first pass failed after its CAPTCHA check had succeeded: the upsert
\* of the code or the mail failed.
FailedAfterCaptcha(r) ==
    /\ Answered(r) /\ resp[r].status = 500
    /\ loc[r].captchaOk
    /\ Has("pending.upsert:error", trace[r]) \/ Has("sendMail:error", trace[r])

\* C26: no step removes from the history of a key an attempt that is still
\* inside the window: the in-window attempts stay, in order, whatever is
\* appended; and a request leaves every in-window attempt it found, and
\* its own, whatever later step of it fails.
C26_NoRollback ==
    /\ [][\A k \in Keys :
            IsPrefix(InWindow(rateLimitCache[k], now),
                     InWindow(rateLimitCache'[k], now))]_vars
    /\ [](\A r \in Slots :
            pc[r] # "idle" /\ loc[r].allowed =>
                IsPrefix(Append(InWindow(loc[r].attempts, loc[r].rlNow), loc[r].rlNow),
                         InWindow(rateLimitCache[Key(r)], loc[r].rlNow)))

\* A request that found attempts on record fails after its CAPTCHA check:
\* the history holds what it found and its own entry.
C26_Witness ==
    \E r \in Slots :
        /\ FailedAfterCaptcha(r)
        /\ Len(InWindow(loc[r].attempts, loc[r].rlNow)) >= 2
        /\ rateLimitCache[Key(r)]
             = Append(InWindow(loc[r].attempts, loc[r].rlNow), loc[r].rlNow)

\* The answer of a second pass whose store calls all succeeded, as the
\* pending row it read and the code it submitted decide it.
SecondPassOutcome(r) ==
    IF CodeRejected(loc[r].pending, req[r].verification_code) THEN
        resp[r].status = 401 /\ resp[r].error = ErrCode
    ELSE IF Expired(CHOOSE p \in loc[r].pending : TRUE, loc[r].checkedAt) THEN
        resp[r].status = 401 /\ resp[r].error = ErrExpired
    ELSE FullLogin(r)

\* C27: a request that carries a verification_code never calls the CAPTCHA
\* verifier, and its answer is decided by the pending row and the code,
\* with or without a captcha_token.
C27_CaptchaFirstPassOnly ==
    \A r \in Slots :
        SecondPass(r) =>
            /\ pc[r] # "captcha"
            /\ ~Has("verifyCaptcha", trace[r])
            /\ ~Has("hcaptcha.siteverify", trace[r])
            /\ loc[r].captchaOutcome = "" /\ ~loc[r].captchaOk
            /\ Answered(r) /\ Has("pending.select", trace[r]) /\ ~loc[r].storeFailed
                  => SecondPassOutcome(r)

\* A second pass without a captcha_token logs in.
C27_Witness ==
    \E r \in Slots :
        SecondPass(r) /\ ~Truthy(req[r].captcha_token) /\ FullLogin(r)

\* A second pass with a captcha_token logs in, the verifier not called.
C27_TokenIgnored ==
    \E r \in Slots :
        /\ SecondPass(r) /\ Truthy(req[r].captcha_token) /\ FullLogin(r)
        /\ ~Has("hcaptcha.siteverify", trace[r])

\* The second pass read a pending row of its (email, fingerprint) that had
\* expired, whatever code it submitted.
FoundExpiredRow(r) ==
    /\ SecondPass(r) /\ Has("pending.select", trace[r])
    /\ \E p \in loc[r].pending : p.expires_at < loc[r].checkedAt

\* C28: a second pass that finds an expired pending row for its (email,
\* fingerprint) is answered 'expired' and leaves no row for that key,
\* whether the code it submitted matches the row or not.
C28_CleanupOnReadAnyCode ==
    \A r \in Slots :
        Answered(r) /\ FoundExpiredRow(r)
        => /\ resp[r].status = 401 /\ resp[r].error = ErrExpired
           /\ LookupFindsNothing(r)

\* A mismatching code on an expired row: answered 'invalid', with no
\* store call failing, and the expired row is still stored.
C28_MismatchKeepsExpiredRow ==
    \E r \in Slots :
        /\ Answered(r) /\ FoundExpiredRow(r) /\ ~loc[r].storeFailed
        /\ resp[r].status = 401 /\ resp[r].error = ErrCode
        /\ ~LookupFindsNothing(r)

\* The second pass was answered 401 'Invalid verification code'.
CodeRefused(r) ==
    /\ Answered(r) /\ SecondPass(r)
    /\ resp[r].status = 401 /\ resp[r].error = ErrCode

\* What the handler does before it writes to a store.
ReadEvents == {"checkRateLimit", "users.select", "bcrypt.compare", "pending.select"}

\* The request has written to no store: its trace holds reads only, and the
\* rows it read are the rows stored.
StoresAsRead(r) ==
    /\ \A i \in DOMAIN trace[r] : trace[r][i] \in ReadEvents
    /\ StoredUsers(req[r].email) = loc[r].user
    /\ PendingFor(pending_verifications, req[r].email, loc[r].deviceFingerprint)
         = loc[r].pending
    /\ resp[r].set_cookie = NoCookie

\* The request follows a second pass that was refused for its code, and
\* submits, for the same email and fingerprint, the code of the row which
\* that second pass read.
FollowsRefusal(r) ==
    /\ prev.kind = "rejected" /\ Truthy(prev.code)
    /\ req[r].email = prev.email
    /\ req[r].fingerprint = prev.fingerprint
    /\ req[r].verification_code = prev.code

\* The frame part of C29: a second pass whose code matches no row of its
\* key is answered 401 'Invalid verification code', and the step that
\* answers it, like the request as a whole, writes to no store.
C29_MismatchWritesNothing ==
    /\ [](\A r \in Slots :
            /\ Answered(r) /\ SecondPass(r) /\ Has("pending.select", trace[r])
            /\ CodeRejected(loc[r].pending, req[r].verification_code)
            => CodeRefused(r) /\ StoresAsRead(r))
    /\ [][\A r \in Slots :
            pc[r] = "selectPending" /\ pc'[r] = "done" /\ resp'[r].error = ErrCode
            => UNCHANGED storeVars]_vars

\* C29: a second pass with a mismatching code, or for a key with no row, is
\* answered 401 'Invalid verification code' and leaves the pending rows,
\* the sessions and the user row unchanged; and the correct code, submitted
\* next and before it expires with no store call failing, is redeemed.
C29_MismatchLeavesCodeRedeemable ==
    \A r \in Slots :
        /\ /\ Answered(r) /\ SecondPass(r) /\ Has("pending.select", trace[r])
           /\ CodeRejected(loc[r].pending, req[r].verification_code)
           => CodeRefused(r) /\ StoresAsRead(r)
        /\ /\ Answered(r) /\ FollowsRefusal(r) /\ GoodLogin(r)
           /\ ~loc[r].storeFailed /\ resp[r].at < prev.expires_at
           => LoggedIn(r)

\* C29 for a following request that the rate limiter admits.
C29_RedeemableWhenAdmitted ==
    \A r \in Slots :
        /\ Answered(r) /\ FollowsRefusal(r) /\ GoodLogin(r) /\ loc[r].allowed
        /\ ~loc[r].storeFailed /\ resp[r].at < prev.expires_at
        => LoggedIn(r)

\* The correct code is redeemed right after a refusal.
C29_RedeemedAfterRefusal ==
    \E r \in Slots : Answered(r) /\ FollowsRefusal(r) /\ LoggedIn(r)

\* C30: the threshold is 5 failed attempts: a request is answered 429 only
\* when at least 5 failed attempts of its key lie within the 15 minutes
\* before it, and a wrong password for an existing account with fewer than
\* 5 such failures is answered 401.
C30_ThresholdIsFiveFailures ==
    \A r \in Slots :
        /\ Answered(r) /\ resp[r].status = 429
           => Len(RecentFailures(r)) >= 5
        /\ /\ Answered(r) /\ ~CorrectPassword(r) /\ ~loc[r].storeFailed
           /\ StoredUsers(req[r].email) # {} /\ Len(RecentFailures(r)) < 5
           => resp[r].status = 401

\* What the code does instead: 429 is answered exactly when the history of
\* the key, to which every admitted request adds, holds 5 entries in the
\* window.
C30_ThresholdIsFiveEntries ==
    \A r \in Slots :
        Answered(r) /\ Has("checkRateLimit", trace[r])
        => (resp[r].status = 429
              <=> Len(InWindow(loc[r].attempts, loc[r].rlNow)) >= maxAttempts)

\* The fourth wrong password in a row is answered 429.
C30_FourthWrongPasswordLimited ==
    \E r \in Slots :
        /\ Answered(r) /\ resp[r].status = 429 /\ ~CorrectPassword(r)
        /\ Len(RecentFailures(r)) = 3

\* The rows of the call's ip created in the 15 minutes before the call (the
\* call was made at since + windowMinutes).
RowsInQuarterHour(c) ==
    {a \in login_attempts :
        /\ a.ip = call[c].ip
        /\ (call[c].since + api_windowMinutes * 60) - a.created_at < windowMs}

\* C31: both limiters count over a trailing 15-minute window with a
\* threshold of 5: a checkRateLimit that read its history denies exactly
\* when at least 5 attempts of the key were recorded in the last 15 minutes.
C31_QuarterHourWindowBoth ==
    /\ \A c \in Slots :
          /\ call[c].fn = "checkRateLimit" /\ call[c].pc = "returned"
          /\ call[c].outcome = "ok"
          => (~call[c].result <=> Cardinality(RowsInQuarterHour(c)) >= 5)
    /\ \A r \in Slots :
          Answered(r) /\ Has("checkRateLimit", trace[r])
          => (~loc[r].allowed
                <=> Len(InWindow(loc[r].attempts, loc[r].rlNow)) >= 5)

\* What src/api/rateLimit.js does: it denies, when the select succeeds,
\* exactly when 5 rows of the ip are at most 10 minutes old.
C31_TenMinuteWindow ==
    \A c \in Slots :
        /\ call[c].fn = "checkRateLimit" /\ call[c].pc = "returned"
        /\ call[c].outcome = "ok"
        => (~call[c].result
              <=> Cardinality({a \in login_attempts :
                     a.ip = call[c].ip /\ a.created_at >= call[c].since}) >= 5)

\* Five attempts recorded 12 minutes before the call, and the call allowed.
C31_TwelveMinutesOldIgnored ==
    \E c \in Slots :
        /\ call[c].fn = "checkRateLimit" /\ call[c].pc = "returned"
        /\ call[c].result
        /\ Cardinality(RowsInQuarterHour(c)) = 5

\* The request's password fails the strength policy.
WeakPassword(r) == ~passwordStrongEnough(req[r].password)

\* The answer is the 400 of the password policy.
PolicyRejection(r) == resp[r].status = 400 /\ resp[r].error = ErrPolicy

\* The request was given neither a code nor a session.
NoOtpNoSession(r) ==
    /\ ~Has("pending.upsert", trace[r])
    /\ ~Has("sessions.insert", trace[r])
    /\ resp[r].set_cookie = NoCookie
    /\ ~resp[r].success

\* No session belongs to an account whose stored password fails the policy.
WeakAccountsHaveNoSession ==
    \A u \in users, x \in sessions :
        /\ x.user_email = u.email
        => ~(\E p \in Passwords :
               /\ ~passwordStrongEnough(p)
               /\ bcryptHash(p) \in {u.encrypted_password, u.password})

\* C32 as stated: of the requests that reach credential verification, one
\* with the correct password that fails the policy is answered 400 and gets
\* neither a code nor a session; one with a wrong password that fails the
\* policy is answered the generic 401; the 400 of the policy is given only
\* to a correct password; an account with such a password never logs in.
C32_PolicyAfterAuthentication ==
    /\ \A r \in Slots :
          Answered(r) /\ ReachedVerification(r) /\ WeakPassword(r)
          => /\ CorrectPassword(r) => PolicyRejection(r) /\ NoOtpNoSession(r)
             /\ ~CorrectPassword(r)
                  => resp[r].status = 401 /\ resp[r].error = ErrInvalid
    /\ \A r \in Slots : Answered(r) /\ PolicyRejection(r) => CorrectPassword(r)
    /\ WeakAccountsHaveNoSession

\* The account passes the checks that come before the policy: it is not
\* suspended, not a honeytoken and not marked unverified.
PassesStatusChecks(r) ==
    \A u \in StoredUsers(req[r].email) :
        ~u.suspended /\ ~u.is_honeytoken /\ u.verified # "false"

\* C32 amended: the 400 is the answer to a correct password failing the
\* policy when the account passes the status checks; whatever the status,
\* such a request gets neither a code nor a session.
C32_PolicyAfterStatusChecks ==
    /\ \A r \in Slots :
          Answered(r) /\ ReachedVerification(r) /\ WeakPassword(r)
          => /\ CorrectPassword(r)
                  => /\ NoOtpNoSession(r)
                     /\ PassesStatusChecks(r) => PolicyRejection(r)
             /\ ~CorrectPassword(r)
                  => resp[r].status = 401 /\ resp[r].error = ErrInvalid
    /\ \A r \in Slots : Answered(r) /\ PolicyRejection(r) => CorrectPassword(r)
    /\ WeakAccountsHaveNoSession

C32_Witness ==
    \E r \in Slots :
        /\ Answered(r) /\ ReachedVerification(r) /\ WeakPassword(r)
        /\ CorrectPassword(r) /\ PassesStatusChecks(r)
        /\ PolicyRejection(r) /\ SecondPass(r)

\* A wrong password that fails the policy is answered the generic 401.
C32_WrongWeakGeneric ==
    \E r \in Slots :
        /\ Answered(r) /\ ReachedVerification(r) /\ WeakPassword(r)
        /\ ~CorrectPassword(r) /\ StoredUsers(req[r].email) # {}
        /\ resp[r].status = 401

\* A suspended account with a correct password that fails the policy is
\* answered 403.
C32_SuspendedWeakGets403 ==
    \E r \in Slots :
        /\ Answered(r) /\ WeakPassword(r) /\ CorrectPassword(r)
        /\ SuspendedCase(r) /\ resp[r].status = 403

\* The answer is a 200 with success:true.
SuccessAnswer(r) == Answered(r) /\ resp[r].status = 200 /\ resp[r].success

\* The first-pass shape: verification_required, after the pending row was
\* stored and the email sent.
FirstPassShape(r) ==
    /\ resp[r].verification_required
    /\ resp[r].set_cookie = NoCookie /\ resp[r].redirect = ""
    /\ Has("pending.upsert", trace[r]) /\ Has("sendMail", trace[r])

\* The final shape: after the session was persisted and the cookie set.
FinalShape(r) ==
    /\ ~resp[r].verification_required
    /\ resp[r].set_cookie # NoCookie /\ resp[r].redirect = ""
    /\ Has("sessions.insert", trace[r]) /\ Has("Set-Cookie", trace[r])

\* The request passed the rate-limit check and the password comparison.
PassedChecks(r) ==
    /\ Has("checkRateLimit", trace[r]) /\ loc[r].allowed
    /\ Has("bcrypt.compare", trace[r]) /\ loc[r].passwordValid
    /\ CorrectPassword(r)

\* C33: every 200 answer with success:true is the first-pass answer (after
\* the pending row was stored and the email sent) or the final answer
\* (after the session was persisted and the cookie set), and is given only
\* to a request that passed the rate-limit and credential checks.
C33_SuccessShapes ==
    \A r \in Slots :
        SuccessAnswer(r)
        => (FirstPassShape(r) \/ FinalShape(r)) /\ PassedChecks(r)

\* C33 for the requests without the google flag.
C33_SuccessShapesWithoutGoogle ==
    \A r \in Slots :
        SuccessAnswer(r) /\ ~req[r].google
        => (FirstPassShape(r) \/ FinalShape(r)) /\ PassedChecks(r)

\* A wrong password with the google flag is answered 200 success:true.
C33_GoogleShortcut ==
    \E r \in Slots :
        /\ SuccessAnswer(r) /\ req[r].google /\ ~CorrectPassword(r)
        /\ trace[r] = <<>> /\ resp[r].redirect = "/api/auth/google"

\* The final shape is answered to a request without the flag.
C33_FinalShapeAnswered ==
    \E r \in Slots : SuccessAnswer(r) /\ ~req[r].google /\ FinalShape(r)

\* The admissions of a key from its i-th on that fall in the 15 minutes
\* which the i-th opens.
AdmittedInWindowFrom(k, i) ==
    {j \in DOMAIN admitted[k] :
        j >= i /\ admitted[k][j] - admitted[k][i] < windowMs}

\* C34: every request that passes checkRateLimit takes one slot of its
\* key's window and keeps it whatever its outcome: the admissions of a key
\* that are still inside the window are all on record in the cache, the
\* request's own among them, and no 15-minute window holds more than 5
\* admissions of one key.
C34_FiveAdmissionsPerWindow ==
    /\ \A k \in Keys : \A i \in DOMAIN admitted[k] :
          Cardinality(AdmittedInWindowFrom(k, i)) <= maxAttempts
    /\ \A k \in Keys :
          Len(InWindow(admitted[k], now)) <= Len(InWindow(rateLimitCache[k], now))
    /\ \A r \in Slots :
          pc[r] # "idle" /\ Has("checkRateLimit", trace[r]) /\ loc[r].allowed
          => \E i \in DOMAIN rateLimitCache[Key(r)] :
                 rateLimitCache[Key(r)][i] = loc[r].rlNow

\* Five requests of one key were admitted in one window, none of them
\* recorded as a failed attempt, and the next is answered 429.
C34_Witness ==
    \E r \in Slots :
        /\ Answered(r) /\ resp[r].status = 429
        /\ Len(InWindow(admitted[Key(r)], now)) = maxAttempts
        /\ failedAttempts[Key(r)] = <<>>

\* A code was issued and four codes were refused in its lifetime: the
\* fifth guess is answered 429.
C34_FifthGuessLimited ==
    \E r \in Slots :
        /\ Answered(r) /\ resp[r].status = 429 /\ SecondPass(r)
        /\ prev.kind = "rejected" /\ Truthy(prev.code)
        /\ Len(admitted[Key(r)]) = maxAttempts

\* A request is admitted once the admissions before it have left the
\* window.
C34_AdmittedAfterWindow ==
    \E r \in Slots :
        /\ pc[r] # "idle" /\ Has("checkRateLimit", trace[r]) /\ loc[r].allowed
        /\ Len(admitted[Key(r)]) > maxAttempts

\* The answer tells the state of the account: the 403 of a suspension, the
\* 403 of an unverified email, or the 400 of the password policy.
DisclosesAccountState(r) ==
    \/ /\ resp[r].status = 403
       /\ \/ resp[r].error = ErrUnverified
          \/ \E u \in StoredUsers(req[r].email) : resp[r].error = SuspensionError(u)
    \/ PolicyRejection(r)

\* The account is suspended or marked unverified.
RestrictedAccount(r) ==
    \E u \in StoredUsers(req[r].email) : u.suspended \/ u.verified = "false"

\* C35: an answer that tells the state of the account is given only to a
\* request whose password matched the stored hash; a wrong password for a
\* suspended or unverified account is answered the generic 401.
C35_DisclosureNeedsPassword ==
    \A r \in Slots :
        /\ Answered(r) /\ DisclosesAccountState(r)
           => CorrectPassword(r) /\ loc[r].passwordValid
        /\ /\ Answered(r) /\ ReachedVerification(r)
           /\ RestrictedAccount(r) /\ ~CorrectPassword(r)
           => /\ resp[r].status = 401 /\ resp[r].error = ErrInvalid
              /\ ~DisclosesAccountState(r)

\* A suspended account answers a wrong password with the generic 401.
C35_Witness ==
    \E r \in Slots :
        /\ Answered(r) /\ ReachedVerification(r)
        /\ SuspendedCase(r) /\ ~CorrectPassword(r)
        /\ resp[r].status = 401 /\ resp[r].error = ErrInvalid

\* Each of the three disclosing answers is given.
C35_SuspensionDisclosed ==
    \E r \in Slots :
        Answered(r) /\ resp[r].status = 403 /\ resp[r].error = "spam"

C35_UnverifiedDisclosed ==
    \E r \in Slots :
        Answered(r) /\ resp[r].status = 403 /\ resp[r].error = ErrUnverified

C35_PolicyDisclosed ==
    \E r \in Slots : Answered(r) /\ PolicyRejection(r)

\* ------------------------------------------------------------------- C36
\* The cookie names a session that was issued and whose expires_at is
\* earlier than the current time.
ExpiredCookie(cookie) ==
    \E x \in MediaSessions :
        /\ TokenText(x.session_token) = cookie_parse(cookie)
        /\ x.expires_at < now

\* The steps of like-video, upload-video and view-videos that write for the
\* user of the session.
WritingSteps ==
    {"likeInsert", "likeDelete", "likeTouch", "deleteVideo", "updateVideo",
     "updateCount", "commentInsert"}

\* C36: a request to me, like-video, upload-video or view-videos whose
\* cookie names an expired session never gets past the session test: it
\* reaches no step that reads or writes for the session's user, it has
\* written nothing to likes, videos, comments or users, its session row is
\* not repaired, and its answer is 401 (500 when a call of me.js throws).
C36_ExpiredSessionNeverAuthenticates ==
    \A m \in Slots :
        /\ (media[m].pc # "idle" /\ ExpiredCookie(media[m].q.cookie)) =>
              /\ media[m].pc \in {"selectSession", "deleteSession", "done"}
              /\ media[m].wrote = <<>>
              /\ media[m].user = {}
              /\ media[m].pc = "done" => media[m].status = 401
        /\ (me[m].pc # "idle" /\ ExpiredCookie(me[m].q.cookie)) =>
              /\ me[m].pc \in {"selectSession", "done"}
              /\ me[m].user = {}
              /\ ~me[m].fixed
              /\ me[m].pc = "done" => me[m].status \in {401, 500}

\* While it is held by C36, nothing the handlers store for a user changes
\* once the session has expired: only the expired session row may go.
C36_NothingWrittenAfterExpiry ==
    [][(\E x \in MediaSessions : x.expires_at < now) =>
          /\ likes' = likes /\ videos' = videos /\ comments' = comments
          /\ users' = users
          /\ sessions' \subseteq sessions]_vars

\* An expired session's request has been answered 401 by each of the four
\* handlers; like-video and upload-video have removed the row on the way.
C36_Witness ==
    \E m \in Slots :
        /\ media[m].pc = "done" /\ media[m].status = 401
        /\ ExpiredCookie(media[m].q.cookie)
        /\ media[m].q.handler = "like-video"
        /\ media[m].error = "Session expired"
        /\ sessions = {}

C36_UploadRefused ==
    \E m \in Slots :
        /\ media[m].pc = "done" /\ media[m].status = 401
        /\ ExpiredCookie(media[m].q.cookie)
        /\ media[m].q.handler = "upload-video"
        /\ media[m].q.videoId = "v1"

C36_CommentRefused ==
    \E m \in Slots :
        /\ media[m].pc = "done" /\ media[m].status = 401
        /\ ExpiredCookie(media[m].q.cookie)
        /\ media[m].q.handler = "view-videos"

C36_MeRefused ==
    \E m \in Slots :
        /\ me[m].pc = "done" /\ me[m].status = 401
        /\ ExpiredCookie(me[m].q.cookie)

\* Before the expiry the same cookie authenticates and writes.
C36_LiveSessionWrites ==
    \E m \in Slots :
        /\ media[m].pc = "done" /\ media[m].status = 200
        /\ media[m].wrote # <<>>
        /\ now = 0

\* ------------------------------------------------------------------- C37
LikePairs == {<<l.user_email, l.target_id>> : l \in likes}

\* C37: the likes table holds at most one row for a user and a video,
\* whatever like and unlike requests have run and however they interleave.
C37_OneLikePerUserAndVideo ==
    \A p \in LikePairs : Cardinality(LikesOf(likes, p[1], p[2])) <= 1

\* The part that holds: a 'like' that finds the user's like, and an
\* 'unlike' that finds none, are answered 200 without a write.
C37_RepeatsChangeNothing ==
    [][\A m \in Slots :
          (media[m].pc = "likeCheck" /\ media'[m].pc = "done"
           /\ media'[m].message \in {"Already liked", "Already not liked"}) =>
              /\ likes' = likes /\ videos' = videos
              /\ media'[m].wrote = <<>> /\ media'[m].status = 200]_vars

\* Two 'like' requests of the user for the video were in flight together
\* and both have inserted: two rows for the pair.
C37_BothInserted ==
    /\ \A m \in Slots :
          /\ media[m].q.action = "like"
          /\ media[m].pc = "done" /\ media[m].status = 200
          /\ media[m].wrote = <<"likes.insert", "videos.update">>
    /\ Cardinality(LikesOf(likes, "alice@x", "v2")) = 2

\* With two rows for the pair the lookup of lines 98-104 (.maybeSingle())
\* fails: the next like or unlike of the user is answered 500.
C37_StuckAfterDuplicate ==
    \E m \in Slots :
        /\ Cardinality(LikesOf(likes, "alice@x", "v2")) = 2
        /\ media[m].pc = "done" /\ media[m].status = 500
        /\ media[m].error = "Error checking like status"

\* A repeated like, one request after the other, is answered 'Already liked'.
C37_AlreadyLikedAnswered ==
    \E m \in Slots :
        /\ media[m].pc = "done" /\ media[m].message = "Already liked"
        /\ Cardinality(LikesOf(likes, "alice@x", "v2")) = 1

\* ------------------------------------------------------------------- C38
\* The video is gone, or its video_url or cover_url differs, in the next state.
DeletedOrRewritten(v) ==
    \A w \in videos' :
        w.id = v.id => (w.video_url # v.video_url \/ w.cover_url # v.cover_url)

\* Slot m takes a writing step of the 'complete' action.
CompleteWrites(m) ==
    /\ media[m].q.handler = "upload-video"
    /\ media[m].pc \in {"deleteVideo", "updateVideo"}
    /\ media'[m].pc # media[m].pc

\* C38: a step of the 'complete' action deletes a video, or rewrites its
\* video_url or cover_url, only when the video's user_id is the id of the
\* authenticated requester.
C38_CompleteOnlyOwnVideo ==
    [][\A m \in Slots : CompleteWrites(m) =>
          \A v \in videos :
              DeletedOrRewritten(v) => v.user_id = media[m].userId]_vars

\* complete with success=false by the first account has removed the second
\* account's video.
C38_OthersVideoDeleted ==
    \E m \in Slots :
        /\ media[m].pc = "done" /\ media[m].status = 400
        /\ media[m].error = "Upload failed"
        /\ media[m].userId = UserId("alice@x")
        /\ media[m].q.videoId = "v2"
        /\ \A v \in videos : v.id # "v2"

\* complete with success=true by the first account has rewritten the URLs of
\* the second account's video.
C38_OthersVideoRewritten ==
    \E m \in Slots, v \in videos :
        /\ media[m].pc = "done" /\ media[m].status = 200
        /\ media[m].userId = UserId("alice@x")
        /\ media[m].q.videoId = "v2"
        /\ v.id = "v2" /\ v.user_id = UserId("bob@x")
        /\ v.video_url # ""

\* The owner's own complete is reached as well.
C38_OwnVideoCompleted ==
    \E m \in Slots, v \in videos :
        /\ media[m].pc = "done" /\ media[m].status = 200
        /\ media[m].q.videoId = "v1" /\ v.id = "v1"
        /\ v.user_id = media[m].userId
        /\ v.video_url = PublicUrl("videos", v.user_id, "v1")


====
